---- MODULE Spec2Model ----
(***************************************************************************)
(* Ticket statistics aggregation of build_report.py: calculate_ticket_stats *)
(* and the helpers it calls, as a state machine over one invocation; two    *)
(* invocations side by side; the report pipeline of main.py around the      *)
(* shared report file; the Freshservice request and pagination loops; and   *)
(* the Mailchimp campaign steps.  Each part has its own specification and   *)
(* its own variables, which the other specifications leave at rest.         *)
(*                                                                          *)
(* Encoding of Python values:                                               *)
(*   dict            a function from key strings to values; a key the dict  *)
(*                   does not hold is outside DOMAIN                        *)
(*   None / a value  None is <<>>, a present value v is <<v>> (Some(v))     *)
(*   str             a TLA+ string; status_text, which the code lowercases  *)
(*                   and searches, is a sequence of one-character strings   *)
(*   ordered dict    (the by-type/-priority/-category distributions) a      *)
(*                   sequence of [k, v] records in insertion order          *)
(***************************************************************************)
EXTENDS Integers, Sequences, FiniteSets, TLC

VARIABLES
    tickets_data,   \* the list passed to calculate_ticket_stats (tickets are augmented in place)
    i,              \* number of tickets the for loop has finished
    stats,          \* the local dict `stats`; the returned value once pc = "done"
    pc,             \* "start", "loop", "done" (returned) or "raised" (exception left the call);
                    \* "call" and "returned" around a call of one of the helper functions
    call,           \* a helper function called on its own: [fn, arg]
    ret,            \* what that call returned
    \* two invocations of calculate_ticket_stats side by side
    calls,          \* per invocation its frame: [tickets_data, i, stats, pc]
    module_constants, \* the module globals SLA_DEFINITIONS and CHART_COLORS
    \* the Flask routes of main.py and the files they share
    raw_data,       \* raw_data/freshservice_<id>.json: client id -> modification time (0: no file)
    output_report,  \* output_report.html: the client the report in it was built for (0: no file)
    handlers,       \* the requests being served: [route, client_id, pc]
    mailed,         \* the reports sent: [to, report]
    \* make_api_request
    current_retry,  \* the local current_retry
    responses,      \* what the server answered to the HTTP requests issued so far
    request_pc,     \* "loop", "returned" or "raised"
    request_ret,    \* the value returned
    allow,          \* the arguments [allow_404, allow_403]
    \* get_paginated_data and get_tickets_for_client_in_range
    page,           \* the local page
    all_items,      \* all_items / all_tickets_enriched
    requested,      \* the page numbers requested so far
    fetched,        \* the latest page: make_api_request's result for it and, for a page of
                    \* ticket stubs, what the API answers to the requests made per ticket
    pages_pc,       \* "loop", "returned" or "raised"
    loop_fn,        \* which of the two functions runs
    \* send_report_via_mailchimp
    campaign_id,    \* the local campaign_id
    steps,          \* the Mailchimp API calls made so far, with their outcomes
    mc_pc,          \* "start", "create", "content", "send", "delete", "returned" or "raised"
    mc_ret,         \* the (success, message) pair returned
    mc_args,        \* the arguments: which of the four required ones are truthy, and
                    \* copy_to_email_address
    has_simplejson  \* simplejson is installed, so that requests raises its JSONDecodeError
                    \* for a body that is not JSON, and not the one of the json module

coreVars == <<tickets_data, i, stats, pc, call, ret>>
twoVars == <<calls, module_constants>>
pipelineVars == <<raw_data, output_report, handlers, mailed>>
requestVars == <<current_retry, responses, request_pc, request_ret, allow>>
pagesVars == <<page, all_items, requested, fetched, pages_pc, loop_fn>>
mailchimpVars == <<campaign_id, steps, mc_pc, mc_ret, mc_args, has_simplejson>>

vars == <<coreVars, twoVars, pipelineVars, requestVars, pagesVars, mailchimpVars>>

----------------------------------------------------------------------------
(* Python value helpers *)

NoneVal == <<>>
Some(v) == <<v>>
EmptyDict == <<>>

\* dict.get(k, default)
Get(d, k, default) == IF k \in DOMAIN d THEN d[k] ELSE default

\* d[k] = v
Put(d, k, v) == [x \in (DOMAIN d) \cup {k} |-> IF x = k THEN v ELSE d[x]]

\* truth value of an optional string: None and "" are falsy
Truthy(o) == o # NoneVal /\ o[1] # ""

\* a or b, on optional strings
Or(a, b) == IF Truthy(a) THEN a ELSE b

----------------------------------------------------------------------------
(* str.lower() and the `in` substring test, on sequences of characters *)

UpperChars == <<"A","B","C","D","E","F","G","H","I","J","K","L","M",
                "N","O","P","Q","R","S","T","U","V","W","X","Y","Z">>
LowerChars == <<"a","b","c","d","e","f","g","h","i","j","k","l","m",
                "n","o","p","q","r","s","t","u","v","w","x","y","z">>

LowerChar(c) ==
    IF \E n \in 1..Len(UpperChars) : UpperChars[n] = c
    THEN LowerChars[CHOOSE n \in 1..Len(UpperChars) : UpperChars[n] = c]
    ELSE c

lower(s) == [n \in 1..Len(s) |-> LowerChar(s[n])]

\* needle in hay
Contains(hay, needle) ==
    \E n \in 1..(Len(hay) - Len(needle) + 1) :
        SubSeq(hay, n, n + Len(needle) - 1) = needle

----------------------------------------------------------------------------
(* Timestamps.  dateutil's isoparse on the timestamp texts the model uses:  *)
(* wall is the wall-clock time of the text in seconds after                 *)
(* 2024-01-01T00:00:00, aware says whether the text carries a UTC offset,   *)
(* utcoffset is that offset in seconds, and text is what                    *)
(* strftime("%b %d, %Y %H:%M") prints for it.  Any other text makes         *)
(* isoparse raise ValueError.                                               *)

IsoTable == {
    [s |-> "2023-12-31T23:59:59Z",      wall |-> 0 - 1,               aware |-> TRUE,  utcoffset |-> 0,       text |-> "Dec 31, 2023 23:59"],
    [s |-> "2024-01-01T00:00:00Z",      wall |-> 0,                   aware |-> TRUE,  utcoffset |-> 0,       text |-> "Jan 01, 2024 00:00"],
    [s |-> "2024-01-01T00:30:00",       wall |-> 30 * 60,             aware |-> FALSE, utcoffset |-> 0,       text |-> "Jan 01, 2024 00:30"],
    [s |-> "2024-01-01T01:31:40+01:00", wall |-> 3600 + 31 * 60 + 40, aware |-> TRUE,  utcoffset |-> 60 * 60, text |-> "Jan 01, 2024 01:31"],
    [s |-> "2024-01-01T02:00:00Z",      wall |-> 2 * 3600,            aware |-> TRUE,  utcoffset |-> 0,       text |-> "Jan 01, 2024 02:00"],
    [s |-> "2024-01-03T00:00:00Z",      wall |-> 2 * 86400,           aware |-> TRUE,  utcoffset |-> 0,       text |-> "Jan 03, 2024 00:00"],
    [s |-> "2024-01-08T00:00:00Z",      wall |-> 7 * 86400,           aware |-> TRUE,  utcoffset |-> 0,       text |-> "Jan 08, 2024 00:00"],
    [s |-> "2024-01-08T00:00:01Z",      wall |-> 7 * 86400 + 1,       aware |-> TRUE,  utcoffset |-> 0,       text |-> "Jan 08, 2024 00:00"] }

\* isoparse(s) returns normally
IsoValid(s) == \E r \in IsoTable : r.s = s

\* isoparse(s), a datetime: [wall, aware, utcoffset]
isoparse(s) ==
    LET r == CHOOSE r \in IsoTable : r.s = s
    IN  [wall |-> r.wall, aware |-> r.aware, utcoffset |-> r.utcoffset]

\* isoparse(s).strftime("%b %d, %Y %H:%M")
strftime(s) == (CHOOSE r \in IsoTable : r.s = s).text

\* make_aware(dt): a naive datetime is taken as UTC
make_aware(dt) ==
    IF dt = NoneVal THEN NoneVal
    ELSE [dt EXCEPT !.aware = TRUE, !.utcoffset = IF dt.aware THEN dt.utcoffset ELSE 0]

\* the instant of an aware datetime, in seconds
Instant(dt) == dt.wall - dt.utcoffset

\* (a - b).total_seconds() of two aware datetimes
total_seconds(a, b) == Instant(a) - Instant(b)

\* format_datetime_filter(value) on an optional string
format_datetime_filter(value) ==
    IF ~Truthy(value) THEN "N/A"
    ELSE IF IsoValid(value[1]) THEN strftime(value[1])
    ELSE value[1]

----------------------------------------------------------------------------
(* format_duration.  Its argument is [num, ms]: num says whether the value  *)
(* is an int or float (None and any other type have num = FALSE), ms is the *)
(* number in thousandths of a second, so that a float such as 0.5 has a     *)
(* value.                                                                   *)

Num(n) == [num |-> TRUE, ms |-> n * 1000]
Millis(k) == [num |-> TRUE, ms |-> k]
NotNum == [num |-> FALSE, ms |-> 0]

Join(parts) ==
    IF Len(parts) = 0 THEN ""
    ELSE IF Len(parts) = 1 THEN parts[1]
    ELSE IF Len(parts) = 2 THEN parts[1] \o " " \o parts[2]
    ELSE parts[1] \o " " \o parts[2] \o " " \o parts[3]

\* line 43, seconds = int(seconds), is the whole part of a non-negative number
format_duration(seconds) ==
    IF ~seconds.num \/ seconds.ms < 0 THEN "N/A"
    ELSE IF seconds.ms \div 1000 = 0 THEN "0m"
    ELSE LET days    == (seconds.ms \div 1000) \div 86400
             r1      == (seconds.ms \div 1000) % 86400
             hours   == r1 \div 3600
             r2      == r1 % 3600
             minutes == r2 \div 60
             parts   == (IF days > 0 THEN <<ToString(days) \o "d">> ELSE <<>>)
                        \o (IF hours > 0 THEN <<ToString(hours) \o "h">> ELSE <<>>)
                        \o (IF minutes > 0 THEN <<ToString(minutes) \o "m">> ELSE <<>>)
         IN  IF parts # <<>> THEN Join(parts) ELSE "< 1m"

----------------------------------------------------------------------------
(* The SLA tier table: seconds allowed for the first reply and for the      *)
(* resolution; the Unknown tier has neither.                                *)

SLA_DEFINITIONS ==
    [Urgent  |-> [reply |-> Some(30 * 60),     resolve |-> Some(7 * 24 * 60 * 60)],
     High    |-> [reply |-> Some(2 * 60 * 60), resolve |-> Some(14 * 24 * 60 * 60)],
     Medium  |-> [reply |-> Some(3 * 60 * 60), resolve |-> Some(21 * 24 * 60 * 60)],
     Low     |-> [reply |-> Some(4 * 60 * 60), resolve |-> Some(30 * 24 * 60 * 60)],
     Unknown |-> [reply |-> NoneVal,           resolve |-> NoneVal]]

\* the lookup falling back to the Low tier instead of Unknown
SlaFor_DefaultLow(p_text) == Get(SLA_DEFINITIONS, p_text, SLA_DEFINITIONS["Low"])

\* SLA_DEFINITIONS.get(p_text, SLA_DEFINITIONS["Unknown"])
SlaFor(p_text) == Get(SLA_DEFINITIONS, p_text, SLA_DEFINITIONS["Unknown"])

----------------------------------------------------------------------------
(* calculate_ticket_stats: the stats dict and the body of its for loop *)

\* the stats dict as initialised for a non-empty collection
InitialStats(tickets) ==
    [total_tickets |-> Len(tickets), closed_tickets |-> 0, open_tickets |-> 0,
     tickets_by_type |-> <<>>, tickets_by_priority |-> <<>>, tickets_by_category |-> <<>>,
     total_resolution_seconds |-> 0, resolved_ticket_count |-> 0, proactive_tickets |-> 0,
     total_first_response_seconds |-> 0, first_response_count |-> 0,
     first_reply_sla_met |-> 0, first_reply_sla_applicable |-> 0,
     resolution_sla_met |-> 0, resolution_sla_applicable |-> 0,
     satisfaction_ratings |-> <<>>]

\* d[k] = d.get(k, 0) + 1 on an insertion-ordered dict
DictInc(d, k) ==
    IF \E n \in 1..Len(d) : d[n].k = k
    THEN [n \in 1..Len(d) |-> IF d[n].k = k THEN [k |-> k, v |-> d[n].v + 1] ELSE d[n]]
    ELSE Append(d, [k |-> k, v |-> 1])

\* an optional timestamp string parsed as the code parses it:
\* make_aware(isoparse(x)) if x else None
ParseRaises(x) == Truthy(x) /\ ~IsoValid(x[1])
ParseAware(x) == IF Truthy(x) THEN make_aware(isoparse(x[1])) ELSE NoneVal

\* "closed" in status_text.lower() or "resolved" in status_text.lower()
is_closed(ticket) ==
    LET status_text == lower(Get(ticket, "status_text", <<>>))
    IN  \/ Contains(status_text, <<"c","l","o","s","e","d">>)
        \/ Contains(status_text, <<"r","e","s","o","l","v","e","d">>)

\* the chain of line 179 with closed_at ahead of stats.resolved_at
resolved_dt_str_ClosedFirst(ticket) ==
    LET t_stats == Get(ticket, "stats", EmptyDict)
    IN  Or(Get(ticket, "resolved_at", NoneVal),
           Or(Get(ticket, "closed_at", NoneVal),
              Or(Get(t_stats, "resolved_at", NoneVal),
                 Get(t_stats, "closed_at", NoneVal))))

\* the resolved/closed timestamp string: the first truthy one of the chain
resolved_dt_str(ticket) ==
    LET t_stats == Get(ticket, "stats", EmptyDict)
    IN  Or(Get(ticket, "resolved_at", NoneVal),
           Or(Get(t_stats, "resolved_at", NoneVal),
              Or(Get(ticket, "closed_at", NoneVal),
                 Get(t_stats, "closed_at", NoneVal))))

\* t_stats.get('first_responded_at')
fr_str(ticket) == Get(Get(ticket, "stats", EmptyDict), "first_responded_at", NoneVal)

\* line 182 with a strict comparison: a ticket resolved at the instant of its
\* creation would be left out
ResolutionCounts_Strict(closed, created_dt, resolved_dt) ==
    /\ closed
    /\ created_dt # NoneVal
    /\ resolved_dt # NoneVal
    /\ Instant(resolved_dt) > Instant(created_dt)

\* line 182: the ticket counts as closed and adds a resolution duration
ResolutionCounts(closed, created_dt, resolved_dt) ==
    /\ closed
    /\ created_dt # NoneVal
    /\ resolved_dt # NoneVal
    /\ Instant(resolved_dt) >= Instant(created_dt)

\* line 189 with a strict comparison
ResponseCounts_Strict(fr_dt, created_dt) ==
    /\ fr_dt # NoneVal
    /\ created_dt # NoneVal
    /\ Instant(fr_dt) > Instant(created_dt)

\* line 189: the ticket adds a first-response duration
ResponseCounts(fr_dt, created_dt) ==
    /\ fr_dt # NoneVal
    /\ created_dt # NoneVal
    /\ Instant(fr_dt) >= Instant(created_dt)

\* line 196 without the created_dt test
NoReplyLogged_NoCreatedTest(sla, created_dt) == sla.reply # NoneVal

\* line 196: the elif that labels the ticket "No Reply Logged"
NoReplyLogged(sla, created_dt) == sla.reply # NoneVal /\ created_dt # NoneVal

\* lines 187 and 193 with a strict comparison: the boundary would miss
WithinThreshold_Strict(secs, threshold) == secs < threshold[1]

\* lines 187 and 193: elapsed seconds within the threshold
WithinThreshold(secs, threshold) == secs <= threshold[1]

\* lines 174-177 filing a ticket without type or category under "Unknown"
CountTicket_DefaultUnknown(st, ticket) ==
    LET p_text == Get(ticket, "priority_text", "Unknown")
    IN  [st EXCEPT
            !.tickets_by_type = DictInc(@, Get(ticket, "type", "Unknown")),
            !.tickets_by_priority = DictInc(@, p_text),
            !.tickets_by_category = DictInc(@, Get(ticket, "category", "Unknown")),
            !.proactive_tickets =
                IF Get(Get(ticket, "custom_fields", EmptyDict), "proactive_case", FALSE)
                THEN @ + 1 ELSE @]

\* lines 174-177: the distributions and the proactive counter
CountTicket(st, ticket) ==
    LET p_text == Get(ticket, "priority_text", "Unknown")
    IN  [st EXCEPT
            !.tickets_by_type = DictInc(@, Get(ticket, "type", "N/A")),
            !.tickets_by_priority = DictInc(@, p_text),
            !.tickets_by_category = DictInc(@, Get(ticket, "category", "N/A")),
            !.proactive_tickets =
                IF Get(Get(ticket, "custom_fields", EmptyDict), "proactive_case", FALSE)
                THEN @ + 1 ELSE @]

\* line 181: the three derived fields at their defaults
DefaultFields(ticket) ==
    Put(Put(Put(ticket, "calendar_resolution_time_str", "N/A"),
            "resolved_at_str", format_datetime_filter(resolved_dt_str(ticket))),
        "first_reply_sla_status", "N/A")

\* lines 182-187 comparing against the reply threshold of the tier
ResolutionStats_ReplyThreshold(st, sla, created_dt, resolved_dt) ==
    LET cal_secs == total_seconds(resolved_dt, created_dt)
        applicable == sla.resolve # NoneVal
    IN  [st EXCEPT
            !.closed_tickets = @ + 1,
            !.total_resolution_seconds = @ + cal_secs,
            !.resolved_ticket_count = @ + 1,
            !.resolution_sla_applicable = IF applicable THEN @ + 1 ELSE @,
            !.resolution_sla_met =
                IF applicable /\ WithinThreshold(cal_secs, sla.reply) THEN @ + 1 ELSE @]

\* lines 182-187 without the closed_tickets increment of line 183
ResolutionStats_NoClosedCount(st, sla, created_dt, resolved_dt) ==
    LET cal_secs == total_seconds(resolved_dt, created_dt)
        applicable == sla.resolve # NoneVal
    IN  [st EXCEPT
            !.total_resolution_seconds = @ + cal_secs,
            !.resolved_ticket_count = @ + 1,
            !.resolution_sla_applicable = IF applicable THEN @ + 1 ELSE @,
            !.resolution_sla_met =
                IF applicable /\ WithinThreshold(cal_secs, sla.resolve) THEN @ + 1 ELSE @]

\* lines 182-187 on the stats
ResolutionStats(st, sla, created_dt, resolved_dt) ==
    LET cal_secs == total_seconds(resolved_dt, created_dt)
        applicable == sla.resolve # NoneVal
    IN  [st EXCEPT
            !.closed_tickets = @ + 1,
            !.total_resolution_seconds = @ + cal_secs,
            !.resolved_ticket_count = @ + 1,
            !.resolution_sla_applicable = IF applicable THEN @ + 1 ELSE @,
            !.resolution_sla_met =
                IF applicable /\ WithinThreshold(cal_secs, sla.resolve) THEN @ + 1 ELSE @]

\* lines 190-195 counting a ticket as applicable only in the else branch
ResponseStats_ApplicableOnMiss(st, sla, created_dt, fr_dt) ==
    LET fr_secs == total_seconds(fr_dt, created_dt)
        applicable == sla.reply # NoneVal
        met == applicable /\ WithinThreshold(fr_secs, sla.reply)
    IN  [st EXCEPT
            !.total_first_response_seconds = @ + fr_secs,
            !.first_response_count = @ + 1,
            !.first_reply_sla_applicable = IF applicable /\ ~met THEN @ + 1 ELSE @,
            !.first_reply_sla_met = IF met THEN @ + 1 ELSE @]

\* lines 190-195 counting every applicable ticket as met
ResponseStats_MetOnMiss(st, sla, created_dt, fr_dt) ==
    LET fr_secs == total_seconds(fr_dt, created_dt)
        applicable == sla.reply # NoneVal
    IN  [st EXCEPT
            !.total_first_response_seconds = @ + fr_secs,
            !.first_response_count = @ + 1,
            !.first_reply_sla_applicable = IF applicable THEN @ + 1 ELSE @,
            !.first_reply_sla_met = IF applicable THEN @ + 1 ELSE @]

\* lines 190-195 on the stats
ResponseStats(st, sla, created_dt, fr_dt) ==
    LET fr_secs == total_seconds(fr_dt, created_dt)
        applicable == sla.reply # NoneVal
    IN  [st EXCEPT
            !.total_first_response_seconds = @ + fr_secs,
            !.first_response_count = @ + 1,
            !.first_reply_sla_applicable = IF applicable THEN @ + 1 ELSE @,
            !.first_reply_sla_met =
                IF applicable /\ WithinThreshold(fr_secs, sla.reply) THEN @ + 1 ELSE @]

\* lines 193-195 without the else of line 195: a tier with no reply threshold
\* would leave the default status
ResponseStatus_NoElse(sla, created_dt, fr_dt) ==
    IF sla.reply # NoneVal
    THEN IF WithinThreshold(total_seconds(fr_dt, created_dt), sla.reply)
         THEN "Met" ELSE "Missed"
    ELSE "N/A"

\* lines 193-195: the status of a ticket that adds a first-response duration
ResponseStatus(sla, created_dt, fr_dt) ==
    IF sla.reply # NoneVal
    THEN IF WithinThreshold(total_seconds(fr_dt, created_dt), sla.reply)
         THEN "Met" ELSE "Missed"
    ELSE "N/A (No SLA Def)"

\* lines 199-200: the present ratings of the ticket, appended in order
RECURSIVE CollectRatings(_, _)
CollectRatings(ratings, rs) ==
    IF rs = <<>> THEN ratings
    ELSE LET r == Head(rs)
             keep == r # EmptyDict /\ Get(r, "ratings", NoneVal) # NoneVal
         IN  CollectRatings(IF keep THEN Append(ratings, r["ratings"][1]) ELSE ratings,
                            Tail(rs))

\* One iteration of the for loop (lines 170-200) on `ticket` with the stats
\* `st`: [raised, ticket, stats] as they stand when the iteration ends or an
\* isoparse call raises ValueError.
LoopBody(ticket, st) ==
    LET p_text == Get(ticket, "priority_text", "Unknown")
        sla == SlaFor(p_text)
        created_str == Get(ticket, "created_at", NoneVal)
    IN
    IF ParseRaises(created_str)                                      \* line 173
    THEN [raised |-> TRUE, ticket |-> ticket, stats |-> st]
    ELSE
    LET created_dt == ParseAware(created_str)
        st1 == CountTicket(st, ticket)                               \* lines 174-177
        closed == is_closed(ticket)                                  \* line 178
        res_str == resolved_dt_str(ticket)                           \* line 179
    IN
    IF ParseRaises(res_str)                                          \* line 180
    THEN [raised |-> TRUE, ticket |-> ticket, stats |-> st1]
    ELSE
    LET resolved_dt == ParseAware(res_str)
        t1 == DefaultFields(ticket)                                  \* line 181
        counts == ResolutionCounts(closed, created_dt, resolved_dt)  \* line 182
        t2 == IF counts
              THEN Put(t1, "calendar_resolution_time_str",
                       format_duration(Num(total_seconds(resolved_dt, created_dt))))
              ELSE t1
        st2 == IF counts THEN ResolutionStats(st1, sla, created_dt, resolved_dt) ELSE st1
        fr == fr_str(ticket)                                         \* line 188
    IN
    IF ParseRaises(fr)
    THEN [raised |-> TRUE, ticket |-> t2, stats |-> st2]
    ELSE
    LET fr_dt == ParseAware(fr)
        responded == ResponseCounts(fr_dt, created_dt)               \* line 189
        t3 == IF responded
              THEN Put(t2, "first_reply_sla_status", ResponseStatus(sla, created_dt, fr_dt))
              ELSE IF NoReplyLogged(sla, created_dt)                 \* line 196
              THEN Put(t2, "first_reply_sla_status", "No Reply Logged")
              ELSE t2
        st3 == IF responded THEN ResponseStats(st2, sla, created_dt, fr_dt) ELSE st2
        st4 == [st3 EXCEPT !.satisfaction_ratings =                  \* lines 199-200
                    CollectRatings(@, Get(ticket, "all_satisfaction_ratings", <<>>))]
    IN  [raised |-> FALSE, ticket |-> t3, stats |-> st4]

----------------------------------------------------------------------------
(* The derived strings and the chart fragments (lines 201-213) *)

CHART_COLORS == <<"#007bff", "#28a745", "#ffc107", "#dc3545", "#6f42c1",
                  "#fd7e14", "#20c997", "#6610f2", "#e83e8c">>

\* num / den * 100 rounded to `digits` decimals (1 or 2), as a whole number
\* of tenths or hundredths: the nearest one, a tie going to the even digit
RoundPercent(num, den, digits) ==
    LET scale == IF digits = 1 THEN 10 ELSE 100
        q == (num * 100 * scale) \div den
        r == (num * 100 * scale) % den
    IN  IF 2 * r > den \/ (2 * r = den /\ q % 2 = 1) THEN q + 1 ELSE q

\* what the format specs .1f and .2f print for that number
FormatScaled(n, digits) ==
    LET scale == IF digits = 1 THEN 10 ELSE 100
        frac == n % scale
    IN  ToString(n \div scale) \o "."
        \o (IF digits = 2 /\ frac < 10 THEN "0" ELSE "") \o ToString(frac)

\* f'{num / den * 100:.1f}' and f'{num / den * 100:.2f}'
FormatPercent(num, den, digits) == FormatScaled(RoundPercent(num, den, digits), digits)

\* lines 204-205 printing the percentage with two decimals
SlaPercentStr_TwoDecimals(met, applicable) ==
    IF applicable > 0
    THEN FormatPercent(met, applicable, 2) \o "% Met (" \o ToString(met) \o "/"
         \o ToString(applicable) \o ")"
    ELSE "N/A"

\* lines 204-205: '<percent>% Met (<met>/<applicable>)' or "N/A"
SlaPercentStr(met, applicable) ==
    IF applicable > 0
    THEN FormatPercent(met, applicable, 1) \o "% Met (" \o ToString(met) \o "/"
         \o ToString(applicable) \o ")"
    ELSE "N/A"

\* lines 202-203 guarded on the total instead of the count: durations that
\* add up to zero would print "N/A"
AverageStr_GuardTotal(total, count) ==
    IF total > 0
    THEN format_duration(Millis((total \div count) * 1000 + ((total % count) * 1000) \div count))
    ELSE "N/A"

\* lines 202-203: the average as a duration string or "N/A"
AverageStr(total, count) ==
    IF count > 0
    THEN format_duration(Millis((total \div count) * 1000 + ((total % count) * 1000) \div count))
    ELSE "N/A"

\* line 206 counting only the ratings above 4
SatisfactionSummary_Above4(ratings) ==
    IF ratings # <<>>
    THEN FormatPercent(Cardinality({n \in 1..Len(ratings) : ratings[n] > 4}),
                       Len(ratings), 1) \o "% Positive"
    ELSE "N/A"

\* line 206
SatisfactionSummary(ratings) ==
    IF ratings # <<>>
    THEN FormatPercent(Cardinality({n \in 1..Len(ratings) : ratings[n] >= 4}),
                       Len(ratings), 1) \o "% Positive"
    ELSE "N/A"

RECURSIVE SumValues(_)
SumValues(d) == IF d = <<>> THEN 0 ELSE Head(d).v + SumValues(Tail(d))

\* sorted(items, key=value, reverse=True): descending by value, stable
RECURSIVE InsertDesc(_, _)
InsertDesc(sorted, e) ==
    IF sorted = <<>> THEN <<e>>
    ELSE IF Head(sorted).v >= e.v THEN <<Head(sorted)>> \o InsertDesc(Tail(sorted), e)
    ELSE <<e>> \o sorted

RECURSIVE SortDesc(_)
SortDesc(d) ==
    IF d = <<>> THEN <<>>
    ELSE InsertDesc(SortDesc(SubSeq(d, 1, Len(d) - 1)), d[Len(d)])

\* line 59 testing only for the empty dict
NoData_EmptyOnly(data_dict) == data_dict = <<>>

\* line 59: not data_dict or sum(data_dict.values()) == 0
NoData(data_dict) == data_dict = <<>> \/ SumValues(data_dict) = 0

\* line 72 cycling over one colour less than the palette holds
ColorAt_ShortCycle(n) == CHART_COLORS[(n % (Len(CHART_COLORS) - 1)) + 1]

\* line 72: CHART_COLORS[i % len(CHART_COLORS)], i counting from 0
ColorAt(n) == CHART_COLORS[(n % Len(CHART_COLORS)) + 1]

\* line 77 without its test: a cell for every entry
HasSegment_Always(value, total_value) == TRUE

\* lines 71 and 77: percentage > 0, the percentage being value / total_value
\* * 100 when total_value > 0 and 0 otherwise
HasSegment(value, total_value) == total_value > 0 /\ value * 100 > 0

\* '{label}: {value} ({percentage:.1f}%)' of lines 78 and 82
EntryText(label, value, total_value) ==
    label \o ": " \o ToString(value) \o " ("
    \o (IF total_value > 0 THEN FormatPercent(value, total_value, 1) ELSE "0.0") \o "%)"

\* generate_segmented_bar_chart_html: the fragment as a record.  legend holds
\* one item per entry, segments one cell per entry with a positive share
\* (hundredths is the width as a number), or the one "(No values)" cell.
generate_segmented_bar_chart_html(data_dict) ==
    IF NoData(data_dict)
    THEN [kind |-> "no_data", segments |-> <<>>, legend |-> <<>>]
    ELSE LET total_value == SumValues(data_dict)
             sorted_data == SortDesc(data_dict)
             hundredths(n) == IF total_value > 0
                              THEN RoundPercent(sorted_data[n].v, total_value, 2) ELSE 0
             item(n) == [label |-> sorted_data[n].k,
                         value |-> sorted_data[n].v,
                         color |-> ColorAt(n - 1),
                         shown |-> HasSegment(sorted_data[n].v, total_value),
                         hundredths |-> hundredths(n),
                         width |-> FormatScaled(hundredths(n), 2),
                         text |-> EntryText(sorted_data[n].k, sorted_data[n].v, total_value)]
             items == [n \in 1..Len(sorted_data) |-> item(n)]
             cells == SelectSeq(items, LAMBDA e : e.shown)
         IN  [kind |-> "chart",
              segments |-> IF cells # <<>> THEN cells
                           ELSE <<[label |-> "(No values)", value |-> 0, color |-> "#e0e0e0",
                                   shown |-> TRUE, hundredths |-> 10000, width |-> "100",
                                   text |-> "(No values)"]>>,
              legend |-> items]

\* generate_sla_bar_chart_html: the fragment as a record
generate_sla_bar_chart_html(met_count, applicable_count) ==
    IF applicable_count = 0
    THEN [kind |-> "not_applicable", met |-> 0, missed |-> 0,
          met_percent |-> "", missed_percent |-> ""]
    ELSE LET missed_count == applicable_count - met_count
         IN  [kind |-> "chart", met |-> met_count, missed |-> missed_count,
              met_percent |-> FormatPercent(met_count, applicable_count, 1),
              missed_percent |-> FormatPercent(missed_count, applicable_count, 1)]

\* lines 201-213: what the code adds to the stats after the loop
FinalStats(st) ==
    [st EXCEPT !.open_tickets = st.total_tickets - st.closed_tickets]
    @@ [average_resolution_time_str |->
            AverageStr(st.total_resolution_seconds, st.resolved_ticket_count),
        average_first_response_time_str |->
            AverageStr(st.total_first_response_seconds, st.first_response_count),
        resolution_sla_percent_str |->
            SlaPercentStr(st.resolution_sla_met, st.resolution_sla_applicable),
        first_reply_sla_percent_str |->
            SlaPercentStr(st.first_reply_sla_met, st.first_reply_sla_applicable),
        satisfaction_summary |-> SatisfactionSummary(st.satisfaction_ratings),
        type_chart_html |-> generate_segmented_bar_chart_html(st.tickets_by_type),
        priority_chart_html |-> generate_segmented_bar_chart_html(st.tickets_by_priority),
        category_chart_html |-> generate_segmented_bar_chart_html(st.tickets_by_category),
        fr_sla_chart_html |->
            generate_sla_bar_chart_html(st.first_reply_sla_met, st.first_reply_sla_applicable),
        res_sla_chart_html |->
            generate_sla_bar_chart_html(st.resolution_sla_met, st.resolution_sla_applicable)]

----------------------------------------------------------------------------
(* The ticket collections the model passes to calculate_ticket_stats.  A    *)
(* ticket is the merge of one fragment per field; the empty fragment leaves *)
(* the key out of the dict.                                                 *)

MaxTickets == 2

Absent == <<>>

PriorityFrags ==
    {Absent} \cup {"priority_text" :> p :
                     p \in {"Urgent", "High", "Medium", "Low", "Unknown", "urgent"}}

StatusFrags ==
    {Absent,
     "status_text" :> <<"O","p","e","n">>,
     "status_text" :> <<"C","l","o","s","e","d">>,
     "status_text" :> <<"R","E","S","O","L","V","E","D">>}

CreatedFrags ==
    {Absent,
     "created_at" :> NoneVal,
     "created_at" :> Some("not-a-date"),
     "created_at" :> Some("2024-01-01T00:00:00Z")}

ResolvedFrags ==
    {Absent} \cup {"resolved_at" :> Some(x) :
                     x \in {"03/01/2024", "2023-12-31T23:59:59Z", "2024-01-01T00:00:00Z",
                            "2024-01-03T00:00:00Z",
                            "2024-01-08T00:00:00Z", "2024-01-08T00:00:01Z"}}

\* the stats sub-dict with its first_responded_at
FirstResponseFrags ==
    {Absent} \cup {"stats" :> ("first_responded_at" :> Some(x)) :
                     x \in {"yesterday", "2023-12-31T23:59:59Z", "2024-01-01T00:00:00Z",
                            "2024-01-01T00:30:00", "2024-01-01T01:31:40+01:00",
                            "2024-01-01T02:00:00Z"}}

Ticket(p, s, c, r, f) == p @@ s @@ c @@ r @@ f

\* every combination of the fields above
WideTickets ==
    {Ticket(p, s, c, r, f) : p \in PriorityFrags, s \in StatusFrags, c \in CreatedFrags,
                             r \in ResolvedFrags, f \in FirstResponseFrags}

\* the tickets of the collections that hold more than one ticket
CoreTickets ==
    {Ticket(p, "status_text" :> <<"C","l","o","s","e","d">>,
            "created_at" :> Some("2024-01-01T00:00:00Z"), r, f) :
        p \in {Absent, "priority_text" :> "Urgent"},
        r \in {Absent, "resolved_at" :> Some("2024-01-08T00:00:00Z"),
               "resolved_at" :> Some("2024-01-08T00:00:01Z")},
        f \in {Absent,
               "stats" :> ("first_responded_at" :> Some("yesterday")),
               "stats" :> ("first_responded_at" :> Some("2024-01-01T00:30:00")),
               "stats" :> ("first_responded_at" :> Some("2024-01-01T01:31:40+01:00"))}}

Closed == "status_text" :> <<"C","l","o","s","e","d">>
Created == "created_at" :> Some("2024-01-01T00:00:00Z")

TypeFrags == {Absent, "type" :> "Incident", "type" :> "Service Request"}

CategoryFrags == {Absent, "category" :> "Hardware"}

ProactiveFrags ==
    {Absent,
     "custom_fields" :> ("proactive_case" :> TRUE),
     "custom_fields" :> ("proactive_case" :> FALSE)}

\* one entry of all_satisfaction_ratings with the rating value n
Rating(n) == "ratings" :> Some(n)

\* all_satisfaction_ratings: entries with a value, with ratings None, without
\* the key, and empty entries
RatingFrags ==
    {Absent} \cup {"all_satisfaction_ratings" :> rs :
                     rs \in {<<>>, <<Rating(5)>>, <<Rating(3), EmptyDict, Rating(4)>>,
                             <<"ratings" :> NoneVal>>, <<Rating(4), Rating(2)>>,
                             <<"id" :> Some(7), Rating(1)>>}}

\* a closed Urgent ticket resolved after two days and answered after 30
\* minutes, with or without created_at, and every combination of the fields
\* that the distributions, the proactive counter and the ratings read
DetailTickets ==
    {Ticket("priority_text" :> "Urgent", Closed, c,
            "resolved_at" :> Some("2024-01-03T00:00:00Z"),
            "stats" :> ("first_responded_at" :> Some("2024-01-01T00:30:00")))
        @@ ty @@ ca @@ pr @@ ra :
        c \in {Absent, "created_at" :> NoneVal, Created},
        ty \in TypeFrags, ca \in CategoryFrags, pr \in ProactiveFrags, ra \in RatingFrags}

\* the detail tickets of the collections that hold more than one ticket
DetailCore ==
    {Ticket("priority_text" :> "Urgent", Closed, c,
            "resolved_at" :> Some("2024-01-03T00:00:00Z"),
            "stats" :> ("first_responded_at" :> Some("2024-01-01T00:30:00")))
        @@ ty @@ pr @@ ra :
        c \in {Absent, Created},
        ty \in {Absent, "type" :> "Incident"},
        pr \in {Absent, "custom_fields" :> ("proactive_case" :> TRUE)},
        ra \in {Absent, "all_satisfaction_ratings" :> <<Rating(5)>>,
                "all_satisfaction_ratings" :> <<Rating(3), EmptyDict, Rating(4)>>}}

\* a closed Urgent ticket with each field of the resolved/closed chain absent,
\* None or holding a timestamp of its own
ChainTickets ==
    {Ticket("priority_text" :> "Urgent", Closed, Created, r, "stats" :> (sr @@ sc)) @@ c :
        r \in {Absent, "resolved_at" :> NoneVal,
               "resolved_at" :> Some("2024-01-01T02:00:00Z")},
        sr \in {Absent, "resolved_at" :> NoneVal,
                "resolved_at" :> Some("2024-01-03T00:00:00Z")},
        c \in {Absent, "closed_at" :> NoneVal,
               "closed_at" :> Some("2024-01-08T00:00:00Z")},
        sc \in {Absent, "closed_at" :> NoneVal,
                "closed_at" :> Some("2024-01-08T00:00:01Z")}}

MaxSlaRun == 4

\* a closed Urgent ticket inside both of its thresholds, and one outside both
SlaRunTickets ==
    {Ticket("priority_text" :> "Urgent", Closed, Created,
            "resolved_at" :> Some("2024-01-08T00:00:00Z"),
            "stats" :> ("first_responded_at" :> Some("2024-01-01T00:30:00"))),
     Ticket("priority_text" :> "Urgent", Closed, Created,
            "resolved_at" :> Some("2024-01-08T00:00:01Z"),
            "stats" :> ("first_responded_at" :> Some("2024-01-01T01:31:40+01:00")))}

\* up to MaxTickets core tickets or detail tickets, up to MaxSlaRun tickets
\* with an SLA outcome each, or any one ticket
Collections ==
    (UNION {[1..n -> CoreTickets] : n \in 0..MaxTickets})
    \cup (UNION {[1..n -> DetailCore] : n \in 1..MaxTickets})
    \cup (UNION {[1..n -> SlaRunTickets] : n \in 1..MaxSlaRun})
    \cup {<<t>> : t \in WideTickets \cup DetailTickets \cup ChainTickets}

----------------------------------------------------------------------------
(* The state machine of one call of calculate_ticket_stats(tickets_data) *)

\* no helper is called on its own while calculate_ticket_stats runs
NoCall == [fn |-> "none", arg |-> NoneVal]

\* the parts of the program that a specification does not run are at rest
CoreIdle ==
    /\ tickets_data = <<>> /\ i = 0 /\ stats = EmptyDict /\ pc = "idle"
    /\ call = NoCall /\ ret = NoneVal
TwoIdle == calls = <<>> /\ module_constants = <<>>
PipelineIdle == raw_data = <<>> /\ output_report = 0 /\ handlers = <<>> /\ mailed = {}
RequestIdle ==
    /\ current_retry = 0 /\ responses = <<>> /\ request_pc = "idle"
    /\ request_ret = NoneVal /\ allow = <<>>
PagesIdle ==
    /\ page = 0 /\ all_items = <<>> /\ requested = <<>> /\ fetched = <<>>
    /\ pages_pc = "idle" /\ loop_fn = "none"
MailchimpIdle ==
    /\ campaign_id = NoneVal /\ steps = <<>> /\ mc_pc = "idle" /\ mc_ret = NoneVal
    /\ mc_args = <<>> /\ has_simplejson = FALSE

exceptCore == <<twoVars, pipelineVars, requestVars, pagesVars, mailchimpVars>>

Init ==
    /\ tickets_data \in Collections
    /\ i = 0
    /\ stats = EmptyDict
    /\ pc = "start"
    /\ call = NoCall
    /\ ret = NoneVal
    /\ TwoIdle /\ PipelineIdle /\ RequestIdle /\ PagesIdle /\ MailchimpIdle

\* lines 158-168: the empty collection returns {} at once
Begin ==
    /\ pc = "start"
    /\ IF tickets_data = <<>>
       THEN stats' = EmptyDict /\ pc' = "done"
       ELSE stats' = InitialStats(tickets_data) /\ pc' = "loop"
    /\ UNCHANGED <<tickets_data, i, call, ret, exceptCore>>

\* lines 169-200: one iteration of the for loop, which may raise
ProcessTicket ==
    /\ pc = "loop"
    /\ i < Len(tickets_data)
    /\ LET r == LoopBody(tickets_data[i + 1], stats)
       IN  /\ tickets_data' = [tickets_data EXCEPT ![i + 1] = r.ticket]
           /\ stats' = r.stats
           /\ IF r.raised
              THEN pc' = "raised" /\ i' = i
              ELSE pc' = "loop" /\ i' = i + 1
    /\ UNCHANGED <<call, ret, exceptCore>>

\* lines 201-216: the derived values, the charts and the return
Finish ==
    /\ pc = "loop"
    /\ i = Len(tickets_data)
    /\ stats' = FinalStats(stats)
    /\ pc' = "done"
    /\ UNCHANGED <<tickets_data, i, call, ret, exceptCore>>

Next == Begin \/ ProcessTicket \/ Finish

Spec == Init /\ [][Next]_vars

----------------------------------------------------------------------------


(* The helper functions called on their own, each on one argument *)

MaxSeconds == 120

\* arguments of format_duration: None or a string, negative numbers, floats
\* with a fraction, whole seconds
DurationInputs ==
    {NotNum}
    \cup {Millis(k) : k \in {0 - 86400000, 0 - 1000, 0 - 1, 1, 500, 999, 1500, 59999, 60001}}
    \cup {Num(n) : n \in (0..MaxSeconds) \cup {3599, 3600, 3661, 86399, 86400, 90000,
                                              90060, 172800, 694861}}

MaxEntries == 3
MaxValue == 3

Labels == <<"A", "B", "C", "D">>

\* distributions of up to MaxEntries entries with counts up to MaxValue, in
\* insertion order
SmallDistributions ==
    UNION {{[n \in 1..len |-> [k |-> Labels[n], v |-> f[n]]] : f \in [1..len -> 0..MaxValue]} :
             len \in 0..MaxEntries}

\* distributions with as many entries as the palette has colours, and more:
\* all counts equal, counts rising, counts repeating
LongDistributions ==
    UNION {{[n \in 1..len |-> [k |-> "T" \o ToString(n), v |-> 1]],
            [n \in 1..len |-> [k |-> "T" \o ToString(n), v |-> n]],
            [n \in 1..len |-> [k |-> "T" \o ToString(n), v |-> n % 3]]} :
             len \in {9, 10, 11}}

Distributions == SmallDistributions \cup LongDistributions

\* met_count and applicable_count as calculate_ticket_stats passes them
SlaCounts == {<<met, applicable>> \in (0..MaxSlaRun) \X (0..MaxSlaRun) : met <= applicable}

Calls ==
    {[fn |-> "format_duration", arg |-> a] : a \in DurationInputs}
    \cup {[fn |-> "generate_segmented_bar_chart_html", arg |-> d] : d \in Distributions}
    \cup {[fn |-> "generate_sla_bar_chart_html", arg |-> c] : c \in SlaCounts}

InitFunctions ==
    /\ tickets_data = <<>>
    /\ i = 0
    /\ stats = EmptyDict
    /\ pc = "call"
    /\ call \in Calls
    /\ ret = NoneVal
    /\ TwoIdle /\ PipelineIdle /\ RequestIdle /\ PagesIdle /\ MailchimpIdle

\* format_duration(seconds)
FormatDuration ==
    /\ pc = "call"
    /\ call.fn = "format_duration"
    /\ ret' = format_duration(call.arg)
    /\ pc' = "returned"
    /\ UNCHANGED <<tickets_data, i, stats, call, exceptCore>>

\* generate_segmented_bar_chart_html(data_dict, chart_title)
SegmentedChart ==
    /\ pc = "call"
    /\ call.fn = "generate_segmented_bar_chart_html"
    /\ ret' = generate_segmented_bar_chart_html(call.arg)
    /\ pc' = "returned"
    /\ UNCHANGED <<tickets_data, i, stats, call, exceptCore>>

\* generate_sla_bar_chart_html(met_count, applicable_count, chart_title)
SlaChart ==
    /\ pc = "call"
    /\ call.fn = "generate_sla_bar_chart_html"
    /\ ret' = generate_sla_bar_chart_html(call.arg[1], call.arg[2])
    /\ pc' = "returned"
    /\ UNCHANGED <<tickets_data, i, stats, call, exceptCore>>

NextFunctions == FormatDuration \/ SegmentedChart \/ SlaChart

SpecFunctions == InitFunctions /\ [][NextFunctions]_vars

----------------------------------------------------------------------------
(* Two invocations of calculate_ticket_stats side by side, each on its own  *)
(* list.  Everything an invocation works on is local to it: its argument    *)
(* and the stats dict it allocates at line 160.  The module globals are     *)
(* read, never assigned.                                                    *)

Invocations == {1, 2}

\* the tickets of the collections passed to the two invocations: one that
\* meets both Urgent thresholds, one without a tier, one whose response
\* timestamp makes isoparse raise
TwoTickets ==
    {Ticket("priority_text" :> "Urgent", Closed, Created,
            "resolved_at" :> Some("2024-01-08T00:00:00Z"),
            "stats" :> ("first_responded_at" :> Some("2024-01-01T00:30:00")))
        @@ ("type" :> "Incident") @@ ("all_satisfaction_ratings" :> <<Rating(5)>>),
     Ticket(Absent, Closed, Created,
            "resolved_at" :> Some("2024-01-08T00:00:01Z"),
            "stats" :> ("first_responded_at" :> Some("2024-01-01T01:31:40+01:00"))),
     Ticket("priority_text" :> "Urgent", Closed, Created, Absent,
            "stats" :> ("first_responded_at" :> Some("yesterday")))}

TwoCollections == UNION {[1..n -> TwoTickets] : n \in 0..MaxTickets}

\* the frame of an invocation at its entry
EntryFrame(tickets) == [tickets_data |-> tickets, i |-> 0, stats |-> EmptyDict, pc |-> "start"]

\* the stats dict held in one place for all invocations: while the first
\* invocation is in its loop, the others work on its dict
Frame_SharedStats(k) ==
    IF calls[1].pc = "loop" THEN [calls[k] EXCEPT !.stats = calls[1].stats] ELSE calls[k]

\* the frame invocation k works in: its own
Frame(k) == calls[k]

\* lines 158-168 on a frame
BeginFrame(f) ==
    IF f.tickets_data = <<>>
    THEN [f EXCEPT !.stats = EmptyDict, !.pc = "done"]
    ELSE [f EXCEPT !.stats = InitialStats(f.tickets_data), !.pc = "loop"]

\* lines 169-200 on a frame: one iteration of the for loop
ProcessFrame(f) ==
    LET r == LoopBody(f.tickets_data[f.i + 1], f.stats)
    IN  [tickets_data |-> [f.tickets_data EXCEPT ![f.i + 1] = r.ticket],
         i |-> IF r.raised THEN f.i ELSE f.i + 1,
         stats |-> r.stats,
         pc |-> IF r.raised THEN "raised" ELSE "loop"]

\* lines 201-216 on a frame
FinishFrame(f) == [f EXCEPT !.stats = FinalStats(f.stats), !.pc = "done"]

InitTwo ==
    /\ calls \in [Invocations -> {EntryFrame(ts) : ts \in TwoCollections}]
    /\ module_constants = [SLA_DEFINITIONS |-> SLA_DEFINITIONS, CHART_COLORS |-> CHART_COLORS]
    /\ CoreIdle /\ PipelineIdle /\ RequestIdle /\ PagesIdle /\ MailchimpIdle

exceptTwo == <<coreVars, pipelineVars, requestVars, pagesVars, mailchimpVars>>

BeginOf(k) ==
    /\ Frame(k).pc = "start"
    /\ calls' = [calls EXCEPT ![k] = BeginFrame(Frame(k))]
    /\ UNCHANGED <<module_constants, exceptTwo>>

ProcessTicketOf(k) ==
    /\ Frame(k).pc = "loop"
    /\ Frame(k).i < Len(Frame(k).tickets_data)
    /\ calls' = [calls EXCEPT ![k] = ProcessFrame(Frame(k))]
    /\ UNCHANGED <<module_constants, exceptTwo>>

FinishOf(k) ==
    /\ Frame(k).pc = "loop"
    /\ Frame(k).i = Len(Frame(k).tickets_data)
    /\ calls' = [calls EXCEPT ![k] = FinishFrame(Frame(k))]
    /\ UNCHANGED <<module_constants, exceptTwo>>

NextTwo == \E k \in Invocations : BeginOf(k) \/ ProcessTicketOf(k) \/ FinishOf(k)

SpecTwo == InitTwo /\ [][NextTwo]_vars

----------------------------------------------------------------------------
(* The report pipeline of main.py.  execute_report_generation runs the      *)
(* puller, which writes raw_data/freshservice_<client_id>.json, and then    *)
(* build_report.py, which reads the newest freshservice_*.json and writes   *)
(* output_report.html; send_report_email mails what output_report.html      *)
(* holds to the address of the client of the request.  The Flask server     *)
(* serves requests side by side.                                            *)

MaxRequests == 3

Clients == {1, 2}

\* the e-mail address companies_list.json links to a client
EmailOf(client_id) == client_id

\* glob + sort by mtime, newest first: the client of the newest file, 0 when
\* there is none (find_client_data_file)
find_client_data_file ==
    IF \A c \in Clients : raw_data[c] = 0 THEN 0
    ELSE CHOOSE c \in Clients :
            raw_data[c] > 0 /\ \A o \in Clients : raw_data[o] <= raw_data[c]

\* the modification time a file written now gets
Now == 1 + Cardinality({c \in Clients : raw_data[c] > 0})
          + Cardinality({n \in 1..Len(handlers) : handlers[n].pc \in {"build", "ok", "error"}})

InitPipeline ==
    /\ raw_data = [c \in Clients |-> 0]
    /\ output_report = 0
    /\ handlers = <<>>
    /\ mailed = {}
    /\ CoreIdle /\ TwoIdle /\ RequestIdle /\ PagesIdle /\ MailchimpIdle

exceptPipeline == <<coreVars, twoVars, requestVars, pagesVars, mailchimpVars>>

\* GET /execute_report_generation/<client_id> arrives
ExecuteReportGeneration(client_id) ==
    /\ Len(handlers) < MaxRequests
    /\ handlers' = Append(handlers, [route |-> "execute_report_generation",
                                     client_id |-> client_id, pc |-> "pull"])
    /\ UNCHANGED <<raw_data, output_report, mailed, exceptPipeline>>

\* main.py lines 252-254: run_script(FRESHSERVICE_PULLER_SCRIPT, client_id);
\* the puller writes freshservice_<client_id>.json or exits with an error
RunPuller(n) ==
    /\ n \in 1..Len(handlers)
    /\ handlers[n].pc = "pull"
    /\ \E ok \in BOOLEAN :
          IF ok
          THEN /\ raw_data' = [raw_data EXCEPT ![handlers[n].client_id] = Now]
               /\ handlers' = [handlers EXCEPT ![n].pc = "build"]
          ELSE /\ raw_data' = raw_data
               /\ handlers' = [handlers EXCEPT ![n].pc = "error"]
    /\ UNCHANGED <<output_report, mailed, exceptPipeline>>

\* main.py lines 256-260: run_script(BUILD_REPORT_SCRIPT); build_report.main
\* renders the newest data file into output_report.html or exits with an error
RunBuildReport(n) ==
    /\ n \in 1..Len(handlers)
    /\ handlers[n].pc = "build"
    /\ \E ok \in BOOLEAN :
          IF ok /\ find_client_data_file # 0
          THEN /\ output_report' = find_client_data_file
               /\ handlers' = [handlers EXCEPT ![n].pc = "ok"]
          ELSE /\ output_report' = output_report
               /\ handlers' = [handlers EXCEPT ![n].pc = IF ok THEN "ok" ELSE "error"]
    /\ UNCHANGED <<raw_data, mailed, exceptPipeline>>

\* POST /send_report_email/<client_id>: the file as it is goes to the
\* client's address; without a file nothing is sent
SendReportEmail(client_id) ==
    /\ output_report # 0
    /\ mailed' = mailed \cup {[to |-> EmailOf(client_id), report |-> output_report]}
    /\ UNCHANGED <<raw_data, output_report, handlers, exceptPipeline>>

NextPipeline ==
    \/ \E c \in Clients : ExecuteReportGeneration(c) \/ SendReportEmail(c)
    \/ \E n \in 1..MaxRequests : RunPuller(n) \/ RunBuildReport(n)

SpecPipeline == InitPipeline /\ [][NextPipeline]_vars

----------------------------------------------------------------------------
(* make_api_request of data_pullers/freshservice.py: the retry loop, one    *)
(* HTTP request per iteration.  What the server (or the network) does with  *)
(* a request is one of Responses.                                           *)

MAX_RETRIES == 3

\* "ok": 200 with a JSON body; "bad_json": 200 with a body that is not JSON;
\* "403_html": 403 with a non-empty body that is not JSON; "429": rate limit
\* with no Retry-After header or a number of seconds; "429_date": rate limit
\* with an HTTP-date in Retry-After; "timeout" and "connection_error": the
\* request raised requests.exceptions.Timeout / ConnectionError
Responses ==
    {"ok", "bad_json", "404", "403", "403_html", "429", "429_date", "500",
     "timeout", "connection_error"}

\* int(response.headers.get('Retry-After', delay)) raises ValueError
RetryAfterRaises(r) == r = "429_date"

\* response.json() raises a JSON decode error
JsonRaises(r) == r \in {"bad_json", "403_html"}

ReturnNone == [kind |-> "None"]
ReturnJson == [kind |-> "json"]
ErrorRecord(status) == [kind |-> "error", status_code |-> status]

\* How one iteration of the while loop ends on response r: "return" with a
\* value, "retry" (current_retry += 1), or "raise" when an exception leaves
\* the function.  A JSON decode error raised inside the try block is either
\* requests' own JSONDecodeError, a RequestException (caught at line 77, the
\* attempt is used up), or the json module's (caught at line 84, return
\* None), depending on the installed requests version.
Outcomes(r, allow_404, allow_403) ==
    CASE r \in {"timeout", "connection_error"} -> {[step |-> "retry"]}
      [] r = "404" ->
            IF allow_404 THEN {[step |-> "return", value |-> ErrorRecord(404)]}
            ELSE {[step |-> "retry"]}
      [] r \in {"403", "403_html"} /\ allow_403 ->
            IF JsonRaises(r)
            THEN {[step |-> "retry"], [step |-> "return", value |-> ReturnNone]}
            ELSE {[step |-> "return", value |-> ErrorRecord(403)]}
      [] r \in {"403", "403_html"} /\ ~allow_403 ->
            \* raise_for_status raises; the handler of line 77 returns the
            \* record, its e.response.json() raising out of the handler
            IF JsonRaises(r) THEN {[step |-> "raise"]}
            ELSE {[step |-> "return", value |-> ErrorRecord(403)]}
      [] r \in {"429", "429_date"} ->
            IF RetryAfterRaises(r) THEN {[step |-> "raise"]} ELSE {[step |-> "retry"]}
      [] r = "500" -> {[step |-> "retry"]}
      [] r = "bad_json" -> {[step |-> "retry"], [step |-> "return", value |-> ReturnNone]}
      [] r = "ok" -> {[step |-> "return", value |-> ReturnJson]}

InitRequest ==
    /\ current_retry = 0
    /\ responses = <<>>
    /\ request_pc = "loop"
    /\ request_ret = NoneVal
    /\ allow \in [allow_404 : BOOLEAN, allow_403 : BOOLEAN]
    /\ CoreIdle /\ TwoIdle /\ PipelineIdle /\ PagesIdle /\ MailchimpIdle

exceptRequest == <<coreVars, twoVars, pipelineVars, pagesVars, mailchimpVars>>

\* lines 53-90: one iteration of `while current_retry <= retries`
Attempt ==
    /\ request_pc = "loop"
    /\ current_retry <= MAX_RETRIES
    /\ \E r \in Responses : \E o \in Outcomes(r, allow.allow_404, allow.allow_403) :
          /\ responses' = Append(responses, r)
          /\ CASE o.step = "retry" ->
                    /\ current_retry' = current_retry + 1
                    /\ UNCHANGED <<request_pc, request_ret>>
               [] o.step = "return" ->
                    /\ request_pc' = "returned"
                    /\ request_ret' = o.value
                    /\ UNCHANGED current_retry
               [] o.step = "raise" ->
                    /\ request_pc' = "raised"
                    /\ UNCHANGED <<current_retry, request_ret>>
    /\ UNCHANGED <<allow, exceptRequest>>

\* lines 92-93: the loop condition fails, return None
Exhausted ==
    /\ request_pc = "loop"
    /\ current_retry > MAX_RETRIES
    /\ request_pc' = "returned"
    /\ request_ret' = ReturnNone
    /\ UNCHANGED <<current_retry, responses, allow, exceptRequest>>

NextRequest == Attempt \/ Exhausted

SpecRequest == InitRequest /\ [][NextRequest]_vars

----------------------------------------------------------------------------
(* The pagination loops of data_pullers/freshservice.py.  What               *)
(* make_api_request hands its caller is [raised, value]: an exception that   *)
(* left it, or the value returned, None and {} both being <<>>.              *)

ITEMS_PER_PAGE == 30
TICKETS_PER_PAGE == 30
\* the literal 100 the loops compare the page number with
PAGE_LIMIT == 100

Raised == [raised |-> TRUE, value |-> NoneVal]
Returns(v) == [raised |-> FALSE, value |-> v]

\* the parameters log_message(message, is_error=False) takes
LogMessageParams == {"message", "is_error"}

\* a call of log_message with these keyword arguments raises TypeError
log_message_raises(keywords) == ~(keywords \subseteq LogMessageParams)

status_map ==
    2 :> "Open" @@ 3 :> "Pending" @@ 4 :> "Resolved" @@ 5 :> "Closed"
    @@ 8 :> "Scheduled" @@ 9 :> "Waiting on Customer" @@ 10 :> "Waiting on Third Party"
    @@ 13 :> "Under Investigation" @@ 23 :> "On Hold" @@ 26 :> "Waiting on Agent"

map_status_id_to_text(status_id) ==
    Get(status_map, status_id, "Status ID " \o ToString(status_id))

priority_map == 1 :> "Low" @@ 2 :> "Medium" @@ 3 :> "High" @@ 4 :> "Urgent"

map_priority_id_to_text(priority_id) ==
    Get(priority_map, priority_id, "Priority ID " \o ToString(priority_id))

\* get_ticket_details_with_includes, given what make_api_request does on the
\* request for the ticket: [raised, value], value being the ticket or None
get_ticket_details_with_includes(response) ==
    IF response.raised THEN Raised
    ELSE LET response_data == response.value
         IN  IF response_data # EmptyDict /\ "ticket" \in DOMAIN response_data
             THEN LET ticket_data  == response_data["ticket"]
                      raw_status   == Get(ticket_data, "status", NoneVal)
                      raw_priority == Get(ticket_data, "priority", NoneVal)
                      with_status  ==
                          Put(ticket_data, "status_text",
                              IF raw_status # NoneVal
                              THEN map_status_id_to_text(raw_status[1])
                              ELSE "Unknown (No Status ID)")
                      with_priority ==
                          Put(with_status, "priority_text",
                              IF raw_priority # NoneVal
                              THEN map_priority_id_to_text(raw_priority[1])
                              ELSE "Unknown (No Priority ID)")
                  IN  IF raw_status = NoneVal /\ log_message_raises({"level"})
                      THEN Raised
                      ELSE IF raw_priority = NoneVal /\ log_message_raises({"level"})
                      THEN Raised
                      ELSE Returns(with_priority)
             ELSE Returns(NoneVal)

\* One iteration of the while loop of get_paginated_data on the result of its
\* request: where the loop stands afterwards
PageStep(response, key_name, pg, items) ==
    IF response.raised THEN [pc |-> "raised", page |-> pg, all_items |-> items]
    ELSE LET response_data == response.value
         IN  IF response_data = EmptyDict \/ key_name \notin DOMAIN response_data
             THEN [pc |-> "returned", page |-> pg, all_items |-> items]
             ELSE LET current_page_items == response_data[key_name]
                  IN  IF current_page_items = <<>>
                      THEN [pc |-> "returned", page |-> pg, all_items |-> items]
                      ELSE IF Len(current_page_items) < ITEMS_PER_PAGE
                      THEN [pc |-> "returned", page |-> pg,
                            all_items |-> items \o current_page_items]
                      ELSE IF pg + 1 > PAGE_LIMIT
                      THEN [pc |-> "returned", page |-> pg + 1,
                            all_items |-> items \o current_page_items]
                      ELSE [pc |-> "loop", page |-> pg + 1,
                            all_items |-> items \o current_page_items]

\* get_paginated_data against a server that answers the request for page p
\* with server[p]: [raised, value], value being all_items
RECURSIVE PaginatedFrom(_, _, _, _)
PaginatedFrom(server, key_name, pg, items) ==
    LET s == PageStep(server[pg], key_name, pg, items)
    IN  CASE s.pc = "raised"   -> Raised
          [] s.pc = "returned" -> Returns(s.all_items)
          [] s.pc = "loop"     -> PaginatedFrom(server, key_name, s.page, s.all_items)

get_paginated_data(server, key_name) == PaginatedFrom(server, key_name, 1, <<>>)

get_ticket_conversations(server) == get_paginated_data(server, "conversations")
get_ticket_time_entries(server) == get_paginated_data(server, "time_entries")

get_ticket_satisfaction_ratings(response) ==
    IF response.raised THEN Raised
    ELSE LET response_data == response.value
         IN  IF response_data # EmptyDict
             THEN IF "error" \in DOMAIN response_data /\ response_data["error"] = "404"
                     /\ "status_code" \in DOMAIN response_data
                     /\ response_data["status_code"] = 404
                  THEN Returns(<<>>)
                  ELSE IF "satisfaction_ratings" \in DOMAIN response_data
                  THEN Returns(response_data["satisfaction_ratings"])
                  ELSE Returns(<<>>)
             ELSE Returns(<<>>)

\* The body of the for loop over the ticket stubs of a page, for the stub and
\* the answers of the API to the requests about it: the exception that left
\* it, the `continue` that skipped the stub, or the ticket appended
Enrich(ticket_stub, answers) ==
    LET ticket_id == Get(ticket_stub, "id", NoneVal)
        Skip == [raised |-> FALSE, skip |-> TRUE, ticket |-> EmptyDict]
        Fail == [raised |-> TRUE, skip |-> FALSE, ticket |-> EmptyDict]
    IN  IF ticket_id = NoneVal \/ ticket_id = Some(0) THEN Skip
        ELSE LET details == get_ticket_details_with_includes(answers.details)
             IN  IF details.raised THEN Fail
                 ELSE IF details.value = EmptyDict THEN Skip
                 ELSE LET conversations == get_ticket_conversations(answers.conversations)
                          time_entries  == get_ticket_time_entries(answers.time_entries)
                          ratings       == get_ticket_satisfaction_ratings(answers.ratings)
                      IN  IF conversations.raised \/ time_entries.raised \/ ratings.raised
                          THEN Fail
                          ELSE [raised |-> FALSE, skip |-> FALSE,
                                ticket |->
                                    Put(Put(Put(details.value,
                                        "all_conversations", conversations.value),
                                        "all_time_entries", time_entries.value),
                                        "all_satisfaction_ratings", ratings.value)]

\* the for loop from stub k on: [raised, value], value being the tickets appended
RECURSIVE EnrichFrom(_, _, _, _)
EnrichFrom(stubs, answers, k, appended) ==
    IF k > Len(stubs) THEN Returns(appended)
    ELSE LET e == Enrich(stubs[k], answers[k])
         IN  IF e.raised THEN [raised |-> TRUE, value |-> appended]
             ELSE EnrichFrom(stubs, answers, k + 1,
                             IF e.skip THEN appended ELSE Append(appended, e.ticket))

\* One iteration of the while loop of get_tickets_for_client_in_range
TicketsStep(response, answers, pg, items) ==
    IF response.raised THEN [pc |-> "raised", page |-> pg, all_items |-> items]
    ELSE LET response_data == response.value
         IN  IF response_data = EmptyDict \/ "tickets" \notin DOMAIN response_data
             THEN [pc |-> "returned", page |-> pg, all_items |-> items]
             ELSE LET current_page_ticket_stubs == response_data["tickets"]
                      enriched == EnrichFrom(current_page_ticket_stubs, answers, 1, <<>>)
                  IN  IF enriched.raised
                      THEN [pc |-> "raised", page |-> pg,
                            all_items |-> items \o enriched.value]
                      ELSE IF Len(current_page_ticket_stubs) < TICKETS_PER_PAGE
                      THEN [pc |-> "returned", page |-> pg,
                            all_items |-> items \o enriched.value]
                      ELSE IF pg + 1 > PAGE_LIMIT
                      THEN [pc |-> "returned", page |-> pg + 1,
                            all_items |-> items \o enriched.value]
                      ELSE [pc |-> "loop", page |-> pg + 1,
                            all_items |-> items \o enriched.value]

(* Inputs.  Item k of page p carries the number (p - 1) * 30 + k.  A page    *)
(* of conversations or time entries is failed, an error record, empty,      *)
(* short or full.  A page of ticket stubs is failed, an error record, full  *)
(* with 30 tickets that have their status and priority, or short with up    *)
(* to MaxStubs stubs of the kinds below.                                    *)
MaxStubs == 2

ItemNo(p, k) == (p - 1) * ITEMS_PER_PAGE + k

NotFound == "error" :> "404" @@ "status_code" :> 404
Forbidden == "error" :> "403" @@ "status_code" :> 403

PageSizes == {0, 1, ITEMS_PER_PAGE - 1, ITEMS_PER_PAGE}

ItemsPage(key_name, p, n) == Returns(key_name :> [k \in 1..n |-> ItemNo(p, k)])

PageResponses(key_name, p) ==
    {Raised, Returns(NoneVal), Returns(Forbidden)}
    \cup {ItemsPage(key_name, p, n) : n \in PageSizes}

\* what the API answers to the requests about one ticket
SubResources ==
    [conversations |-> <<ItemsPage("conversations", 1, 1)>>,
     time_entries  |-> <<Returns(NoneVal)>>,
     ratings       |-> Returns(NotFound)]

OtherSubResources ==
    [conversations |-> <<ItemsPage("conversations", 1, 0)>>,
     time_entries  |-> <<ItemsPage("time_entries", 1, 1)>>,
     ratings       |-> Returns("satisfaction_ratings" :> <<5>>)]

AnswersWith(details, sub) ==
    [details |-> details, conversations |-> sub.conversations,
     time_entries |-> sub.time_entries, ratings |-> sub.ratings]

StubKinds ==
    {"no_id", "details_failed", "details_raise", "full", "no_status",
     "no_priority", "other"}

Stub(kind, id) == IF kind = "no_id" THEN EmptyDict ELSE "id" :> Some(id)

\* the ticket the details request of a stub of this kind returns
DetailsOf(kind, id) ==
    CASE kind = "full" ->
            "id" :> Some(id) @@ "status" :> Some(2) @@ "priority" :> Some(1)
      [] kind = "no_status" ->
            "id" :> Some(id) @@ "priority" :> Some(4)
      [] kind = "no_priority" ->
            "id" :> Some(id) @@ "status" :> Some(5) @@ "priority" :> NoneVal
      [] kind = "other" ->
            "id" :> Some(id) @@ "status" :> Some(99) @@ "priority" :> Some(9)

Answers(kind, id) ==
    CASE kind \in {"no_id", "details_failed"} -> AnswersWith(Returns(NoneVal), SubResources)
      [] kind = "details_raise" -> AnswersWith(Raised, SubResources)
      [] kind = "other" ->
            AnswersWith(Returns("ticket" :> DetailsOf(kind, id)), OtherSubResources)
      [] OTHER -> AnswersWith(Returns("ticket" :> DetailsOf(kind, id)), SubResources)

\* a page of ticket stubs of the given kinds, with the answers about each
StubsPage(p, kinds) ==
    [response |-> Returns("tickets" :> [k \in 1..Len(kinds) |-> Stub(kinds[k], ItemNo(p, k))]),
     answers  |-> [k \in 1..Len(kinds) |-> Answers(kinds[k], ItemNo(p, k))]]

TicketPages(p) ==
    {[response |-> r, answers |-> <<>>] : r \in {Raised, Returns(NoneVal), Returns(Forbidden)}}
    \cup {StubsPage(p, kinds) : kinds \in UNION {[1..n -> StubKinds] : n \in 0..MaxStubs}}
    \cup {StubsPage(p, [k \in 1..TICKETS_PER_PAGE |-> "full"])}

InitPages ==
    /\ loop_fn \in {"get_paginated_data", "get_tickets_for_client_in_range"}
    /\ page = 1
    /\ all_items = <<>>
    /\ requested = <<>>
    /\ fetched = <<>>
    /\ pages_pc = "loop"
    /\ CoreIdle /\ TwoIdle /\ PipelineIdle /\ RequestIdle /\ MailchimpIdle

exceptPages == <<coreVars, twoVars, pipelineVars, requestVars, mailchimpVars>>

\* one iteration of the while loop of get_paginated_data, and its return
FetchPage ==
    /\ loop_fn = "get_paginated_data"
    /\ pages_pc = "loop"
    /\ \E r \in PageResponses("conversations", page) :
          LET s == PageStep(r, "conversations", page, all_items)
          IN  /\ requested' = Append(requested, page)
              /\ fetched' = [response |-> r, answers |-> <<>>]
              /\ page' = s.page
              /\ all_items' = s.all_items
              /\ pages_pc' = s.pc
    /\ UNCHANGED <<loop_fn, exceptPages>>

\* one iteration of the while loop of get_tickets_for_client_in_range, and
\* its return
FetchTicketsPage ==
    /\ loop_fn = "get_tickets_for_client_in_range"
    /\ pages_pc = "loop"
    /\ \E f \in TicketPages(page) :
          LET s == TicketsStep(f.response, f.answers, page, all_items)
          IN  /\ requested' = Append(requested, page)
              /\ fetched' = f
              /\ page' = s.page
              /\ all_items' = s.all_items
              /\ pages_pc' = s.pc
    /\ UNCHANGED <<loop_fn, exceptPages>>

NextPages == FetchPage \/ FetchTicketsPage

SpecPages == InitPages /\ [][NextPages]_vars

----------------------------------------------------------------------------
(* send_report_via_mailchimp of main.py.  An HTTP call made through         *)
(* requests ends in one of: "ok" (a status below 400), "http_error" (a      *)
(* status from 400 on, which raise_for_status turns into HTTPError), or     *)
(* "exception" (ConnectionError, Timeout: the call itself raises).  The     *)
(* body of a response is JSON or other text.                                *)

CallOutcomes ==
    {[kind |-> "ok", body |-> "json"], [kind |-> "ok", body |-> "text"],
     [kind |-> "http_error", body |-> "json"], [kind |-> "http_error", body |-> "text"],
     [kind |-> "exception", body |-> "none"]}

\* the bodies a successful campaign creation answers with: a campaign with
\* an id, an object without one, or text that is not JSON
CreateBodies == {"campaign", "no_id", "text"}

\* get_error_response_text(e) raises: e.response.json() fails on a body that
\* is not JSON, and `except json.JSONDecodeError` does not catch the
\* simplejson error requests raises when simplejson is installed
error_text_raises(o) == o.kind = "http_error" /\ o.body = "text" /\ has_simplejson

\* the segment of the list the campaign goes to
recipients_payload(args) ==
    LET with_copy == args.copy_to_email_address \notin {"none", "client"}
    IN  [conditions |-> IF with_copy THEN <<"client", args.copy_to_email_address>>
                        ELSE <<"client">>,
         match      |-> IF with_copy THEN "any" ELSE "all"]

ReturnFalse(message) == [ok |-> FALSE, message |-> message]
ReturnTrue(message) == [ok |-> TRUE, message |-> message]

InitMailchimp ==
    /\ mc_args \in [mc_api_key : BOOLEAN, mc_dc : BOOLEAN, list_id : BOOLEAN,
                    client_email : BOOLEAN,
                    copy_to_email_address : {"none", "client", "other"}]
    /\ has_simplejson \in BOOLEAN
    /\ campaign_id = NoneVal
    /\ steps = <<>>
    /\ mc_pc = "start"
    /\ mc_ret = NoneVal
    /\ CoreIdle /\ TwoIdle /\ PipelineIdle /\ RequestIdle /\ PagesIdle

exceptMailchimp == <<coreVars, twoVars, pipelineVars, requestVars, pagesVars>>

\* lines 58-60: the check of the required arguments
CheckConfiguration ==
    /\ mc_pc = "start"
    /\ IF mc_args.mc_api_key /\ mc_args.mc_dc /\ mc_args.list_id /\ mc_args.client_email
       THEN mc_pc' = "create" /\ UNCHANGED mc_ret
       ELSE /\ mc_pc' = "returned"
            /\ mc_ret' = ReturnFalse("Missing Mailchimp configuration or client email.")
    /\ UNCHANGED <<campaign_id, steps, mc_args, has_simplejson, exceptMailchimp>>

\* lines 112-126: POST /campaigns and the test of the campaign id
CreateCampaign ==
    /\ mc_pc = "create"
    /\ \E o \in CallOutcomes : \E b \in CreateBodies :
          /\ o.kind = "ok" => o.body = (IF b = "text" THEN "text" ELSE "json")
          /\ o.kind # "ok" => b = "campaign"
          /\ steps' = Append(steps, [call |-> "create", outcome |-> o.kind,
                                     recipients |-> recipients_payload(mc_args)])
          /\ CASE o.kind = "ok" /\ b = "campaign" ->
                    /\ campaign_id' = Some("c1")
                    /\ mc_pc' = "content"
                    /\ UNCHANGED mc_ret
               [] o.kind = "ok" /\ b = "no_id" ->
                    /\ mc_pc' = "returned"
                    /\ mc_ret' = ReturnFalse("Failed to get campaign ID.")
                    /\ UNCHANGED campaign_id
               [] o.kind = "ok" /\ b = "text" ->
                    \* response.json() raises requests' JSONDecodeError, which
                    \* carries no response
                    /\ mc_pc' = "returned"
                    /\ mc_ret' = ReturnFalse("Failed to create Mailchimp campaign.")
                    /\ UNCHANGED campaign_id
               [] o.kind # "ok" /\ error_text_raises(o) ->
                    /\ mc_pc' = "raised"
                    /\ UNCHANGED <<campaign_id, mc_ret>>
               [] o.kind # "ok" /\ ~error_text_raises(o) ->
                    /\ mc_pc' = "returned"
                    /\ mc_ret' = ReturnFalse("Failed to create Mailchimp campaign.")
                    /\ UNCHANGED campaign_id
    /\ UNCHANGED <<mc_args, has_simplejson, exceptMailchimp>>

\* lines 128-137: PUT the content; on failure the handler deletes the
\* campaign with a call that nothing guards
SetContent ==
    /\ mc_pc = "content"
    /\ \E o \in CallOutcomes :
          IF o.kind = "ok"
          THEN /\ steps' = Append(steps, [call |-> "content", outcome |-> "ok"])
               /\ mc_pc' = "send"
               /\ UNCHANGED mc_ret
          ELSE IF error_text_raises(o)
          THEN /\ steps' = Append(steps, [call |-> "content", outcome |-> o.kind])
               /\ mc_pc' = "raised"
               /\ UNCHANGED mc_ret
          ELSE \E d \in CallOutcomes :
                  /\ steps' = steps \o <<[call |-> "content", outcome |-> o.kind],
                                         [call |-> "delete", outcome |-> d.kind]>>
                  /\ IF d.kind = "exception"
                     THEN mc_pc' = "raised" /\ UNCHANGED mc_ret
                     ELSE /\ mc_pc' = "returned"
                          /\ mc_ret' = ReturnFalse("Failed to set Mailchimp campaign content.")
    /\ UNCHANGED <<campaign_id, mc_args, has_simplejson, exceptMailchimp>>

\* lines 139-147: POST actions/send
SendCampaign ==
    /\ mc_pc = "send"
    /\ \E o \in CallOutcomes :
          /\ steps' = Append(steps, [call |-> "send", outcome |-> o.kind])
          /\ IF o.kind = "ok" THEN mc_pc' = "delete" /\ UNCHANGED mc_ret
             ELSE IF error_text_raises(o) THEN mc_pc' = "raised" /\ UNCHANGED mc_ret
             ELSE /\ mc_pc' = "returned"
                  /\ mc_ret' = ReturnFalse("Failed to send Mailchimp campaign.")
    /\ UNCHANGED <<campaign_id, mc_args, has_simplejson, exceptMailchimp>>

\* lines 149-160: wait, DELETE the campaign, return success
DeleteCampaign ==
    /\ mc_pc = "delete"
    /\ \E o \in CallOutcomes :
          /\ steps' = Append(steps, [call |-> "delete", outcome |-> o.kind])
          /\ IF o.kind # "ok" /\ error_text_raises(o)
             THEN mc_pc' = "raised" /\ UNCHANGED mc_ret
             ELSE /\ mc_pc' = "returned"
                  /\ mc_ret' = ReturnTrue("Report sent via Mailchimp.")
    /\ UNCHANGED <<campaign_id, mc_args, has_simplejson, exceptMailchimp>>

NextMailchimp ==
    CheckConfiguration \/ CreateCampaign \/ SetContent \/ SendCampaign \/ DeleteCampaign

SpecMailchimp == InitMailchimp /\ [][NextMailchimp]_vars

----------------------------------------------------------------------------
(* What the claims speak of, stated apart from the operators above *)

\* the call has returned a stats dict for a non-empty collection, or is in its loop
Running == pc \in {"loop", "done"} /\ tickets_data # <<>>
Returned == pc = "done"

\* the tickets whose loop iteration has ended
Processed == 1..i

\* the counters and distributions a stats record holds
StatsKeys ==
    {"total_tickets", "closed_tickets", "open_tickets", "tickets_by_type",
     "tickets_by_priority", "tickets_by_category", "total_resolution_seconds",
     "resolved_ticket_count", "proactive_tickets", "total_first_response_seconds",
     "first_response_count", "first_reply_sla_met", "first_reply_sla_applicable",
     "resolution_sla_met", "resolution_sla_applicable", "satisfaction_ratings"}

\* seconds after 2024-01-01T00:00:00Z of the instant a timestamp text names
ClockOf(s) ==
    CASE s = "2023-12-31T23:59:59Z"      -> 0 - 1
      [] s = "2024-01-01T00:00:00Z"      -> 0
      [] s = "2024-01-01T00:30:00"       -> 1800
      [] s = "2024-01-01T01:31:40+01:00" -> 1900
      [] s = "2024-01-01T02:00:00Z"      -> 7200
      [] s = "2024-01-03T00:00:00Z"      -> 172800
      [] s = "2024-01-08T00:00:00Z"      -> 604800
      [] s = "2024-01-08T00:00:01Z"      -> 604801

MalformedTexts == {"not-a-date", "03/01/2024", "yesterday"}

\* the ticket has the timestamp (a present, non-empty value)
Has(o) == o # NoneVal /\ o[1] # ""
Malformed(o) == Has(o) /\ o[1] \in MalformedTexts

CreatedOf(t) == Get(t, "created_at", NoneVal)
ResolvedOf(t) == resolved_dt_str(t)
RespondedOf(t) == fr_str(t)

HasMalformedTimestamp(t) ==
    Malformed(CreatedOf(t)) \/ Malformed(ResolvedOf(t)) \/ Malformed(RespondedOf(t))

\* status_text contains "closed" or "resolved", whatever the case
SaysClosed(t) ==
    /\ "status_text" \in DOMAIN t
    /\ t["status_text"] \in {<<"C","l","o","s","e","d">>, <<"R","E","S","O","L","V","E","D">>}

\* the reply and resolve thresholds of the four tiers, in seconds
Tiers == {"Urgent", "High", "Medium", "Low"}
Tiered(t) == "priority_text" \in DOMAIN t /\ t["priority_text"] \in Tiers
ReplyLimit(t) ==
    CASE t["priority_text"] = "Urgent" -> 1800
      [] t["priority_text"] = "High"   -> 7200
      [] t["priority_text"] = "Medium" -> 10800
      [] t["priority_text"] = "Low"    -> 14400
ResolveLimit(t) ==
    CASE t["priority_text"] = "Urgent" -> 604800
      [] t["priority_text"] = "High"   -> 1209600
      [] t["priority_text"] = "Medium" -> 1814400
      [] t["priority_text"] = "Low"    -> 2592000

\* the ticket adds a resolution duration, and the seconds it adds
AddsResolution(t) ==
    /\ SaysClosed(t)
    /\ Has(CreatedOf(t)) /\ Has(ResolvedOf(t))
    /\ ClockOf(ResolvedOf(t)[1]) >= ClockOf(CreatedOf(t)[1])
ResolutionSeconds(t) ==
    IF AddsResolution(t) THEN ClockOf(ResolvedOf(t)[1]) - ClockOf(CreatedOf(t)[1]) ELSE 0

\* the ticket adds a first-response duration, and the seconds it adds
AddsResponse(t) ==
    /\ Has(CreatedOf(t)) /\ Has(RespondedOf(t))
    /\ ClockOf(RespondedOf(t)[1]) >= ClockOf(CreatedOf(t)[1])
ResponseSeconds(t) ==
    IF AddsResponse(t) THEN ClockOf(RespondedOf(t)[1]) - ClockOf(CreatedOf(t)[1]) ELSE 0

RECURSIVE SumFirst(_, _, _)
SumFirst(F(_), ts, n) == IF n = 0 THEN 0 ELSE F(ts[n]) + SumFirst(F, ts, n - 1)

CountProcessed(P(_)) == Cardinality({n \in Processed : P(tickets_data[n])})

----------------------------------------------------------------------------
(* The claims *)

\* C1: for every ticket collection the returned stats satisfy
\* open_tickets + closed_tickets = total_tickets, total_tickets being the
\* number of tickets of the collection.
C1_OpenPlusClosedIsTotal ==
    Returned =>
        /\ {"open_tickets", "closed_tickets", "total_tickets"} \subseteq DOMAIN stats
        /\ stats["open_tickets"] + stats["closed_tickets"] = stats["total_tickets"]
        /\ stats["total_tickets"] = Len(tickets_data)

\* C2: the empty collection returns a stats record with total_tickets = 0,
\* every counter zero and the three distributions present and empty.
C2_EmptyCollectionZeroStats ==
    (Returned /\ tickets_data = <<>>) =>
        /\ StatsKeys \subseteq DOMAIN stats
        /\ stats["total_tickets"] = 0
        /\ stats["closed_tickets"] = 0 /\ stats["open_tickets"] = 0
        /\ stats["tickets_by_type"] = <<>>
        /\ stats["tickets_by_priority"] = <<>>
        /\ stats["tickets_by_category"] = <<>>

\* C3: a malformed created, resolved/closed or first-response timestamp never
\* makes the call raise; once it has returned every ticket, the malformed one
\* included, has been counted and carries its derived fields.
C3_MalformedTimestampNeverRaises ==
    (\E n \in 1..Len(tickets_data) : HasMalformedTimestamp(tickets_data[n])) =>
        /\ pc # "raised"
        /\ Returned =>
              /\ i = Len(tickets_data)
              /\ \A n \in 1..Len(tickets_data) :
                    "first_reply_sla_status" \in DOMAIN tickets_data[n]

\* C4: a ticket adds to total_resolution_seconds and resolved_ticket_count
\* exactly when its status says closed or resolved, it has a created and a
\* resolved/closed timestamp and resolved >= created; it then adds
\* resolved - created seconds and its calendar_resolution_time_str is that
\* duration formatted (172800 s reads "2d"); otherwise it adds nothing and the
\* string is "N/A".
C4_ResolutionAccumulation ==
    /\ \A n \in Processed :
          LET t == tickets_data[n]
          IN  /\ "calendar_resolution_time_str" \in DOMAIN t
              /\ t["calendar_resolution_time_str"] =
                    IF AddsResolution(t)
                    THEN format_duration(Num(ResolutionSeconds(t)))
                    ELSE "N/A"
              /\ ResolutionSeconds(t) = 172800 => t["calendar_resolution_time_str"] = "2d"
    /\ Running =>
          /\ stats["total_resolution_seconds"] = SumFirst(ResolutionSeconds, tickets_data, i)
          /\ stats["resolved_ticket_count"] = CountProcessed(AddsResolution)

C4_Witness ==
    /\ Returned
    /\ \E n \in Processed :
          /\ AddsResolution(tickets_data[n])
          /\ tickets_data[n]["calendar_resolution_time_str"] = "2d"
    /\ stats["total_resolution_seconds"] = 172800

\* C5: a ticket adds to total_first_response_seconds and first_response_count
\* exactly when it has a created and a first-response timestamp and
\* response >= created, whatever its status and its priority tier.
C5_FirstResponseAccumulation ==
    Running =>
        /\ stats["total_first_response_seconds"] = SumFirst(ResponseSeconds, tickets_data, i)
        /\ stats["first_response_count"] = CountProcessed(AddsResponse)

C5_Witness ==
    /\ Returned
    /\ \E n \in Processed :
          /\ AddsResponse(tickets_data[n])
          /\ ~SaysClosed(tickets_data[n])
          /\ ~Tiered(tickets_data[n])
    /\ stats["first_response_count"] = 1
    /\ stats["total_first_response_seconds"] = 1900

\* C6: a ticket whose priority_text is "Unknown", absent or any text outside
\* Urgent/High/Medium/Low is handled under the Unknown tier: it never
\* increments a reply or resolution SLA tally and is never labelled against a
\* reply threshold, whatever its timestamps and status.
C6_UnknownTierNeverApplicable ==
    /\ \A n \in Processed :
          ~Tiered(tickets_data[n]) =>
              tickets_data[n]["first_reply_sla_status"] \in {"N/A", "N/A (No SLA Def)"}
    /\ Running =>
          \A k \in {"first_reply_sla_applicable", "first_reply_sla_met",
                    "resolution_sla_applicable", "resolution_sla_met"} :
              stats[k] <= CountProcessed(Tiered)

C6_Witness ==
    /\ Returned
    /\ \E n \in Processed :
          /\ "priority_text" \in DOMAIN tickets_data[n]
          /\ tickets_data[n]["priority_text"] = "urgent"
          /\ AddsResolution(tickets_data[n])
          /\ AddsResponse(tickets_data[n])
    /\ stats["first_reply_sla_applicable"] = 0
    /\ stats["resolution_sla_applicable"] = 0

ReplyWithinLimit(t) == Tiered(t) /\ AddsResponse(t) /\ ResponseSeconds(t) <= ReplyLimit(t)

\* C8: a ticket whose tier defines a reply threshold and whose first response
\* is at or after creation is "Met" exactly when the elapsed seconds are <= the
\* threshold (the boundary included) and "Missed" otherwise, and only the "Met"
\* case increments first_reply_sla_met; Urgent answered after 1900 s is "Missed".
C8_ReplySlaStatus ==
    /\ \A n \in Processed :
          LET t == tickets_data[n]
          IN  (Tiered(t) /\ AddsResponse(t)) =>
                  /\ t["first_reply_sla_status"] =
                        IF ResponseSeconds(t) <= ReplyLimit(t) THEN "Met" ELSE "Missed"
                  /\ (t["priority_text"] = "Urgent" /\ ResponseSeconds(t) = 1900)
                        => t["first_reply_sla_status"] = "Missed"
    /\ Running => stats["first_reply_sla_met"] = CountProcessed(ReplyWithinLimit)

C8_Witness ==
    /\ Returned
    /\ \E n, m \in Processed :
          /\ Tiered(tickets_data[n]) /\ tickets_data[n]["priority_text"] = "Urgent"
          /\ ResponseSeconds(tickets_data[n]) = 1800
          /\ tickets_data[n]["first_reply_sla_status"] = "Met"
          /\ Tiered(tickets_data[m]) /\ tickets_data[m]["priority_text"] = "Urgent"
          /\ ResponseSeconds(tickets_data[m]) = 1900
          /\ tickets_data[m]["first_reply_sla_status"] = "Missed"
    /\ stats["first_reply_sla_met"] = 1

ResolutionApplies(t) == Tiered(t) /\ AddsResolution(t)
ResolvedWithinLimit(t) == ResolutionApplies(t) /\ ResolutionSeconds(t) <= ResolveLimit(t)

\* C9: every ticket that adds a resolution duration and whose tier defines a
\* resolve threshold increments resolution_sla_applicable by one, and
\* resolution_sla_met exactly when its elapsed seconds are <= the threshold
\* (the boundary included); no other ticket changes either tally.
C9_ResolutionSlaTally ==
    Running =>
        /\ stats["resolution_sla_applicable"] = CountProcessed(ResolutionApplies)
        /\ stats["resolution_sla_met"] = CountProcessed(ResolvedWithinLimit)

C9_Witness ==
    /\ Returned
    /\ \E n, m \in Processed :
          /\ ResolutionApplies(tickets_data[n])
          /\ ResolutionSeconds(tickets_data[n]) = ResolveLimit(tickets_data[n])
          /\ ResolutionApplies(tickets_data[m])
          /\ ResolutionSeconds(tickets_data[m]) = ResolveLimit(tickets_data[m]) + 1
    /\ stats["resolution_sla_applicable"] = 2
    /\ stats["resolution_sla_met"] = 1

\* C10: every ticket with no first-response timestamp at all whose tier
\* defines a reply threshold ends with first_reply_sla_status
\* "No Reply Logged", whatever its other fields, a missing created_at included.
C10_NoReplyLoggedAlways ==
    \A n \in Processed :
        LET t == tickets_data[n]
        IN  (Tiered(t) /\ ~Has(RespondedOf(t))) =>
                t["first_reply_sla_status"] = "No Reply Logged"

\* C10 as amended: such a ticket ends with "No Reply Logged" when it has a
\* created_at timestamp, and keeps the default "N/A" when it has none.
C10_NoReplyLoggedWhenCreated ==
    \A n \in Processed :
        LET t == tickets_data[n]
        IN  (Tiered(t) /\ ~Has(RespondedOf(t))) =>
                t["first_reply_sla_status"] =
                    IF Has(CreatedOf(t)) THEN "No Reply Logged" ELSE "N/A"

C10_Witness ==
    /\ Returned
    /\ \E n \in Processed :
          LET t == tickets_data[n]
          IN  /\ Tiered(t) /\ ~Has(RespondedOf(t)) /\ Has(CreatedOf(t))
              /\ t["first_reply_sla_status"] = "No Reply Logged"

UntieredResponse(t) == ~Tiered(t) /\ AddsResponse(t)
TieredResponse(t) == Tiered(t) /\ AddsResponse(t)

\* C11: a ticket under a tier with no reply threshold (the Unknown tier) that
\* has a first response at or after creation is labelled "N/A (No SLA Def)",
\* adds to the first-response accumulators and leaves
\* first_reply_sla_applicable and first_reply_sla_met as they were.
C11_NoSlaDefStatus ==
    /\ \A n \in Processed :
          UntieredResponse(tickets_data[n]) =>
              tickets_data[n]["first_reply_sla_status"] = "N/A (No SLA Def)"
    /\ Running =>
          /\ stats["first_response_count"]
                = CountProcessed(UntieredResponse) + CountProcessed(TieredResponse)
          /\ stats["first_reply_sla_applicable"] = CountProcessed(TieredResponse)
          /\ stats["first_reply_sla_met"] <= CountProcessed(TieredResponse)

C11_Witness ==
    /\ Returned
    /\ \E n \in Processed :
          /\ UntieredResponse(tickets_data[n])
          /\ tickets_data[n]["first_reply_sla_status"] = "N/A (No SLA Def)"
    /\ stats["first_response_count"] = 1
    /\ stats["total_first_response_seconds"] = 1800
    /\ stats["first_reply_sla_applicable"] = 0
    /\ stats["first_reply_sla_met"] = 0

\* a helper called on its own has returned
Called(fn) == pc = "returned" /\ call.fn = fn

\* whole days, hours and minutes of a number of whole seconds
DaysOf(secs) == secs \div 86400
HoursOf(secs) == (secs \div 3600) % 24
MinutesOf(secs) == (secs \div 60) % 60

\* "Xd Yh Zm" with the zero components left out
DurationText(secs) ==
    LET d == IF DaysOf(secs) > 0 THEN ToString(DaysOf(secs)) \o "d" ELSE ""
        h == IF HoursOf(secs) > 0 THEN ToString(HoursOf(secs)) \o "h" ELSE ""
        m == IF MinutesOf(secs) > 0 THEN ToString(MinutesOf(secs)) \o "m" ELSE ""
        dh == IF d # "" /\ h # "" THEN d \o " " \o h ELSE d \o h
    IN  IF dh # "" /\ m # "" THEN dh \o " " \o m ELSE dh \o m

\* C12: format_duration gives "N/A" for None, a non-numeric value or a
\* negative number, "0m" for 0, "< 1m" for every positive duration under 60
\* seconds, and otherwise the non-zero day, hour and minute components in
\* descending order separated by spaces (3661 gives "1h 1m", 90000 "1d 1h").
C12_FormatDurationRule ==
    Called("format_duration") =>
        LET x == call.arg
        IN  /\ (~x.num \/ x.ms < 0) => ret = "N/A"
            /\ (x.num /\ x.ms = 0) => ret = "0m"
            /\ (x.num /\ 0 < x.ms /\ x.ms < 60000) => ret = "< 1m"
            /\ (x.num /\ x.ms >= 60000) => ret = DurationText(x.ms \div 1000)
            /\ x = Num(3661) => ret = "1h 1m"
            /\ x = Num(90000) => ret = "1d 1h"

\* calculate_ticket_stats returned the stats of a non-empty collection
ReturnedStats == pc = "done" /\ tickets_data # <<>>

\* C13: in the stats of a non-empty collection each derived string is "N/A"
\* exactly when its denominator is zero: the two averages (the resolved and
\* the first-response count), the two SLA percentage strings (the applicable
\* count of the dimension) and satisfaction_summary (the number of ratings).
C13_NotApplicableIffZeroDenominator ==
    ReturnedStats =>
        /\ stats["average_resolution_time_str"] = "N/A"
              <=> stats["resolved_ticket_count"] = 0
        /\ stats["average_first_response_time_str"] = "N/A"
              <=> stats["first_response_count"] = 0
        /\ stats["resolution_sla_percent_str"] = "N/A"
              <=> stats["resolution_sla_applicable"] = 0
        /\ stats["first_reply_sla_percent_str"] = "N/A"
              <=> stats["first_reply_sla_applicable"] = 0
        /\ stats["satisfaction_summary"] = "N/A"
              <=> Len(stats["satisfaction_ratings"]) = 0

\* the resolution and reply denominators are zero, the response and rating
\* denominators are not
C13_Witness ==
    /\ ReturnedStats
    /\ stats["resolved_ticket_count"] = 0
    /\ stats["average_resolution_time_str"] = "N/A"
    /\ stats["resolution_sla_percent_str"] = "N/A"
    /\ Len(stats["satisfaction_ratings"]) > 0
    /\ stats["satisfaction_summary"] # "N/A"

\* num / den * 100 in tenths: the whole number of tenths nearest to the
\* quotient, the even one when two are equally near
Tenths(num, den) ==
    LET q == (1000 * num) \div den
        Away(t) == IF t * den >= 1000 * num THEN t * den - 1000 * num
                   ELSE 1000 * num - t * den
    IN  CHOOSE t \in {q, q + 1} :
            \/ 2 * Away(t) < den
            \/ 2 * Away(t) = den /\ t % 2 = 0

\* a number of tenths written with one decimal
OneDecimal(t) == ToString(t \div 10) \o "." \o ToString(t % 10)

\* C14 as stated: when applicable > 0 the SLA percentage string of a dimension
\* is met/applicable*100 to one decimal followed by "%", so that 3 met of 4
\* applicable gives the string "75.0%".
C14_PercentOnly ==
    ReturnedStats =>
        /\ stats["first_reply_sla_applicable"] > 0 =>
              stats["first_reply_sla_percent_str"]
                 = OneDecimal(Tenths(stats["first_reply_sla_met"],
                                     stats["first_reply_sla_applicable"])) \o "%"
        /\ stats["resolution_sla_applicable"] > 0 =>
              stats["resolution_sla_percent_str"]
                 = OneDecimal(Tenths(stats["resolution_sla_met"],
                                     stats["resolution_sla_applicable"])) \o "%"
        /\ (stats["first_reply_sla_met"] = 3 /\ stats["first_reply_sla_applicable"] = 4) =>
              stats["first_reply_sla_percent_str"] = "75.0%"

\* the percentage, "% Met" and the two counts in parentheses
MetText(met, applicable) ==
    OneDecimal(Tenths(met, applicable)) \o "% Met (" \o ToString(met) \o "/"
    \o ToString(applicable) \o ")"

\* C14, amended: when applicable > 0 the SLA percentage string of a dimension
\* is met/applicable*100 to one decimal followed by "% Met (met/applicable)",
\* so that 3 met of 4 applicable gives the string "75.0% Met (3/4)".
C14_PercentMetWithCounts ==
    ReturnedStats =>
        /\ stats["first_reply_sla_applicable"] > 0 =>
              stats["first_reply_sla_percent_str"]
                 = MetText(stats["first_reply_sla_met"], stats["first_reply_sla_applicable"])
        /\ stats["resolution_sla_applicable"] > 0 =>
              stats["resolution_sla_percent_str"]
                 = MetText(stats["resolution_sla_met"], stats["resolution_sla_applicable"])
        /\ (stats["first_reply_sla_met"] = 3 /\ stats["first_reply_sla_applicable"] = 4) =>
              stats["first_reply_sla_percent_str"] = "75.0% Met (3/4)"
        /\ (stats["resolution_sla_met"] = 3 /\ stats["resolution_sla_applicable"] = 4) =>
              stats["resolution_sla_percent_str"] = "75.0% Met (3/4)"

\* three of four applicable tickets met both thresholds
C14_Witness ==
    /\ ReturnedStats
    /\ stats["first_reply_sla_met"] = 3
    /\ stats["first_reply_sla_applicable"] = 4
    /\ stats["first_reply_sla_percent_str"] = "75.0% Met (3/4)"
    /\ stats["resolution_sla_met"] = 3
    /\ stats["resolution_sla_applicable"] = 4

\* a field of the ticket or of its stats sub-dict, None when the key is absent
FieldOf(t, k) == IF k \in DOMAIN t THEN t[k] ELSE NoneVal
StatsFieldOf(t, k) == IF "stats" \in DOMAIN t THEN FieldOf(t["stats"], k) ELSE NoneVal

\* the four fields of the resolved/closed chain in their order of priority
ChainOf(t) ==
    <<FieldOf(t, "resolved_at"), StatsFieldOf(t, "resolved_at"),
      FieldOf(t, "closed_at"), StatsFieldOf(t, "closed_at")>>

\* the first non-null value of the chain, None when there is none
Authoritative(t) ==
    LET chain == ChainOf(t)
        present == {k \in 1..4 : chain[k] # NoneVal}
    IN  IF present = {} THEN NoneVal
        ELSE chain[CHOOSE k \in present : \A j \in present : k <= j]

\* the date and time of a timestamp as the report prints it
DateText(s) ==
    CASE s = "2023-12-31T23:59:59Z"      -> "Dec 31, 2023 23:59"
      [] s = "2024-01-01T00:00:00Z"      -> "Jan 01, 2024 00:00"
      [] s = "2024-01-01T02:00:00Z"      -> "Jan 01, 2024 02:00"
      [] s = "2024-01-03T00:00:00Z"      -> "Jan 03, 2024 00:00"
      [] s = "2024-01-08T00:00:00Z"      -> "Jan 08, 2024 00:00"
      [] s = "2024-01-08T00:00:01Z"      -> "Jan 08, 2024 00:00"

\* the ticket is closed and its authoritative timestamp is not before created_at
AuthoritativeCounts(t) ==
    /\ SaysClosed(t)
    /\ Has(CreatedOf(t)) /\ Authoritative(t) # NoneVal
    /\ ClockOf(Authoritative(t)[1]) >= ClockOf(CreatedOf(t)[1])
AuthoritativeSeconds(t) ==
    IF AuthoritativeCounts(t)
    THEN ClockOf(Authoritative(t)[1]) - ClockOf(CreatedOf(t)[1]) ELSE 0

RatingsOf(t) ==
    LET entries == IF "all_satisfaction_ratings" \in DOMAIN t
                   THEN t["all_satisfaction_ratings"] ELSE <<>>
        HasValue(e) == "ratings" \in DOMAIN e /\ e["ratings"] # NoneVal
        valued == SelectSeq(entries, HasValue)
    IN  [k \in 1..Len(valued) |-> valued[k]["ratings"][1]]

\* the ratings of the first n tickets, ticket after ticket
RECURSIVE RatingsUpTo(_)
RatingsUpTo(n) == IF n = 0 THEN <<>> ELSE RatingsUpTo(n - 1) \o RatingsOf(tickets_data[n])

PositiveCount(rs) == Cardinality({k \in 1..Len(rs) : rs[k] >= 4})

\* C16: the collected ratings are every present rating value of every
\* ticket's ratings sequence, in ticket order then sequence order;
\* satisfaction_summary is "N/A" when none was collected and otherwise the
\* share of collected ratings >= 4, times 100, to one decimal, followed by
\* "% Positive".
C16_SatisfactionSummary ==
    /\ Running => stats["satisfaction_ratings"] = RatingsUpTo(i)
    /\ ReturnedStats =>
          LET rs == RatingsUpTo(Len(tickets_data))
          IN  stats["satisfaction_summary"]
                 = IF rs = <<>> THEN "N/A"
                   ELSE OneDecimal(Tenths(PositiveCount(rs), Len(rs))) \o "% Positive"

\* one rating from the first ticket, two from the second with an empty entry
\* between them: two of the three are 4 or more
C16_Witness ==
    /\ ReturnedStats
    /\ Len(tickets_data) = 2
    /\ RatingsOf(tickets_data[1]) = <<5>>
    /\ RatingsOf(tickets_data[2]) = <<3, 4>>
    /\ stats["satisfaction_ratings"] = <<5, 3, 4>>
    /\ stats["satisfaction_summary"] = "66.7% Positive"

\* every count of the distribution is zero
AllZero(d) == \A n \in 1..Len(d) : d[n].v = 0

\* C17: generate_segmented_bar_chart_html returns the single "No data
\* available" fragment for an empty distribution and for any non-empty
\* distribution whose values are all zero; generate_sla_bar_chart_html
\* returns its "Not applicable" placeholder when applicable_count is 0.
C17_PlaceholderFragments ==
    /\ (Called("generate_segmented_bar_chart_html") /\ AllZero(call.arg)) =>
          ret = [kind |-> "no_data", segments |-> <<>>, legend |-> <<>>]
    /\ (Called("generate_sla_bar_chart_html") /\ call.arg[2] = 0) =>
          ret.kind = "not_applicable"

\* a distribution of several entries, all of them zero
C17_Witness ==
    /\ Called("generate_segmented_bar_chart_html")
    /\ Len(call.arg) > 1
    /\ AllZero(call.arg)
    /\ ret.kind = "no_data"

\* the sum of the counts of a distribution
TotalOf(d) == SumFirst(LAMBDA e : e.v, d, Len(d))

Distance(a, b) == IF a >= b THEN a - b ELSE b - a

\* a number of hundredths written with two decimals
TwoDecimals(h) ==
    ToString(h \div 100) \o "." \o (IF h % 100 < 10 THEN "0" ELSE "") \o ToString(h % 100)

\* "label: value (percentage%)" with the percentage to one decimal
LegendText(e, total) ==
    e.k \o ": " \o ToString(e.v) \o " (" \o OneDecimal(Tenths(e.v, total)) \o "%)"

\* C18: for every distribution with a positive total the chart gives each
\* entry the share value/total*100, has one bar segment per entry with a
\* non-zero value and none for a zero-valued entry, its segment percentages
\* sum to 100 within the rounding tolerance, and each legend item reads
\* "label: value (percentage%)" with the entry's own count and its percentage
\* to one decimal; {"A": 3, "B": 1} gives 75.0% and 25.0%.
C18_SharesSegmentsLegend ==
    (Called("generate_segmented_bar_chart_html") /\ TotalOf(call.arg) > 0) =>
        LET d == call.arg
            total == TotalOf(d)
            SegmentsOf(e) == {n \in 1..Len(ret.segments) : ret.segments[n].label = e.k}
            LegendOf(e) == {n \in 1..Len(ret.legend) : ret.legend[n].label = e.k}
        IN  /\ ret.kind = "chart"
            /\ Len(ret.legend) = Len(d)
            /\ Len(ret.segments) = Cardinality({n \in 1..Len(d) : d[n].v > 0})
            /\ \A n \in 1..Len(d) :
                  /\ Cardinality(SegmentsOf(d[n])) = IF d[n].v > 0 THEN 1 ELSE 0
                  /\ \A m \in SegmentsOf(d[n]) :
                        /\ 2 * Distance(ret.segments[m].hundredths * total, d[n].v * 10000)
                              <= total
                        /\ ret.segments[m].width = TwoDecimals(ret.segments[m].hundredths)
                        /\ ret.segments[m].text = LegendText(d[n], total)
                  /\ Cardinality(LegendOf(d[n])) = 1
                  /\ \A m \in LegendOf(d[n]) :
                        /\ ret.legend[m].value = d[n].v
                        /\ ret.legend[m].text = LegendText(d[n], total)
            /\ 2 * Distance(SumFirst(LAMBDA c : c.hundredths, ret.segments, Len(ret.segments)),
                            10000) <= Len(ret.segments)
            /\ d = <<[k |-> "A", v |-> 3], [k |-> "B", v |-> 1]>> =>
                  /\ ret.legend[1].text = "A: 3 (75.0%)"
                  /\ ret.legend[2].text = "B: 1 (25.0%)"
                  /\ ret.segments[1].width = "75.00"
                  /\ ret.segments[2].width = "25.00"

\* three entries, the middle one zero: two segments, three legend items
C18_Witness ==
    /\ Called("generate_segmented_bar_chart_html")
    /\ call.arg = <<[k |-> "A", v |-> 1], [k |-> "B", v |-> 0], [k |-> "C", v |-> 2]>>
    /\ Len(ret.segments) = 2
    /\ ret.segments[1].width = "66.67"
    /\ ret.segments[2].width = "33.33"
    /\ ret.legend[3].text = "B: 0 (0.0%)"

\* the place of a label in the distribution as it was passed
PlaceOf(d, label) == CHOOSE n \in 1..Len(d) : d[n].k = label

\* C19: the chart orders the entries by value descending, keeping the
\* original insertion order among equal values, and gives the entry at
\* position i of that order (counted from 0) the colour CHART_COLORS[i mod 9];
\* the entries are pairwise distinct in colour whenever the distribution has
\* at most 9 entries.  (The order and the colours are read off the fragment
\* returned for the distribution, which is all the function is given.)
C19_OrderAndColours ==
    (Called("generate_segmented_bar_chart_html") /\ TotalOf(call.arg) > 0) =>
        LET d == call.arg
            legend == ret.legend
        IN  /\ \A m \in 1..Len(legend) : \A n \in 1..Len(legend) :
                  m < n =>
                     \/ legend[m].value > legend[n].value
                     \/ /\ legend[m].value = legend[n].value
                        /\ PlaceOf(d, legend[m].label) < PlaceOf(d, legend[n].label)
            /\ \A m \in 1..Len(legend) :
                  legend[m].color = CHART_COLORS[((m - 1) % 9) + 1]
            /\ \A c \in 1..Len(ret.segments) : \E m \in 1..Len(legend) :
                  /\ legend[m].label = ret.segments[c].label
                  /\ legend[m].color = ret.segments[c].color
            /\ Len(d) <= 9 =>
                  \A m \in 1..Len(legend) : \A n \in 1..Len(legend) :
                     m # n => legend[m].color # legend[n].color

\* ten entries with rising counts: the last one passed comes first, and the
\* tenth of the order takes the first colour again
C19_Witness ==
    /\ Called("generate_segmented_bar_chart_html")
    /\ Len(call.arg) = 10
    /\ call.arg[10].v = 10
    /\ ret.legend[1].label = "T10"
    /\ ret.legend[10].label = "T1"
    /\ ret.legend[9].color = "#e83e8c"
    /\ ret.legend[10].color = ret.legend[1].color

\* what the distributions file a ticket under
TypeOf(t) == IF "type" \in DOMAIN t THEN t["type"] ELSE "N/A"
PriorityOf(t) == IF "priority_text" \in DOMAIN t THEN t["priority_text"] ELSE "Unknown"
CategoryOf(t) == IF "category" \in DOMAIN t THEN t["category"] ELSE "N/A"

IsProactive(t) ==
    /\ "custom_fields" \in DOMAIN t
    /\ "proactive_case" \in DOMAIN t["custom_fields"]
    /\ t["custom_fields"]["proactive_case"]

HasCreated(t) == Has(CreatedOf(t))
LacksCreated(t) == ~Has(CreatedOf(t))

\* the count a distribution holds for a label
CountFor(dist, label) ==
    SumFirst(LAMBDA e : IF e.k = label THEN e.v ELSE 0, dist, Len(dist))

\* the distribution counts every processed ticket under KeyOf of the ticket
Distributes(dist, KeyOf(_)) ==
    /\ TotalOf(dist) = i
    /\ \A n \in Processed :
          CountFor(dist, KeyOf(tickets_data[n]))
             = Cardinality({m \in Processed : KeyOf(tickets_data[m]) = KeyOf(tickets_data[n])})

\* tickets with and without created_at are counted in total_tickets, in the
\* three distributions, in the proactive counter and in the collected
\* ratings; a ticket without created_at adds nothing to the resolution and
\* first-response accumulators or to an SLA tally and keeps the default
\* duration and status texts
CountedWithoutDurations ==
    /\ Running =>
          /\ stats["total_tickets"] = Len(tickets_data)
          /\ Distributes(stats["tickets_by_type"], TypeOf)
          /\ Distributes(stats["tickets_by_priority"], PriorityOf)
          /\ Distributes(stats["tickets_by_category"], CategoryOf)
          /\ stats["proactive_tickets"] = CountProcessed(IsProactive)
          /\ stats["satisfaction_ratings"] = RatingsUpTo(i)
          /\ stats["resolved_ticket_count"] <= CountProcessed(HasCreated)
          /\ stats["first_response_count"] <= CountProcessed(HasCreated)
          /\ stats["resolution_sla_applicable"] <= CountProcessed(HasCreated)
          /\ stats["first_reply_sla_applicable"] <= CountProcessed(HasCreated)
          /\ CountProcessed(HasCreated) = 0 =>
                /\ stats["total_resolution_seconds"] = 0
                /\ stats["total_first_response_seconds"] = 0
                /\ stats["resolution_sla_met"] = 0
                /\ stats["first_reply_sla_met"] = 0
    /\ \A n \in Processed :
          LacksCreated(tickets_data[n]) =>
             /\ tickets_data[n]["calendar_resolution_time_str"] = "N/A"
             /\ tickets_data[n]["first_reply_sla_status"] = "N/A"

\* C20: a ticket with no created_at is still counted in total_tickets, in the
\* by-type, by-priority and by-category distributions, in the proactive
\* counter and in the collected ratings, contributes nothing to the
\* resolution and first-response accumulators or to any SLA tally, and does
\* not make calculate_ticket_stats raise.
C20_MissingCreatedAt ==
    /\ CountedWithoutDurations
    /\ pc = "raised" => HasCreated(tickets_data[i + 1])

\* a proactive ticket of a type, with ratings and without created_at, has been
\* counted and has left the accumulators at zero
MissingCreatedCounted ==
    /\ Returned
    /\ Len(tickets_data) = 1
    /\ LacksCreated(tickets_data[1])
    /\ IsProactive(tickets_data[1])
    /\ stats["tickets_by_type"] = <<[k |-> "Incident", v |-> 1]>>
    /\ stats["proactive_tickets"] = 1
    /\ stats["satisfaction_ratings"] = <<3, 4>>
    /\ stats["resolved_ticket_count"] = 0
    /\ stats["first_response_count"] = 0

\* C22: a ticket that carries a first_responded_at timestamp is never labelled
\* "No Reply Logged"; a ticket whose response timestamp is earlier than its
\* created_at keeps another status.
C22_NoReplyLoggedOnlyWithoutResponse ==
    \A n \in Processed :
        Has(RespondedOf(tickets_data[n])) =>
            tickets_data[n]["first_reply_sla_status"] # "No Reply Logged"

\* C23: in the stats of every non-empty collection closed_tickets equals
\* resolved_ticket_count: a ticket is counted as closed only when it also adds
\* a resolution duration, and a ticket whose status says closed or resolved
\* but which lacks a usable created or resolved timestamp, or was resolved
\* before it was created, is counted in open_tickets.
C23_ClosedIsResolvedCount ==
    /\ Running =>
          /\ stats["closed_tickets"] = stats["resolved_ticket_count"]
          /\ stats["closed_tickets"] = CountProcessed(AuthoritativeCounts)
    /\ ReturnedStats =>
          stats["open_tickets"]
             = Cardinality({n \in 1..Len(tickets_data) : ~AuthoritativeCounts(tickets_data[n])})

\* a ticket marked closed and resolved a second before it was created
C23_Witness ==
    /\ ReturnedStats
    /\ Len(tickets_data) = 1
    /\ SaysClosed(tickets_data[1])
    /\ HasCreated(tickets_data[1])
    /\ Authoritative(tickets_data[1]) = Some("2023-12-31T23:59:59Z")
    /\ stats["closed_tickets"] = 0
    /\ stats["resolved_ticket_count"] = 0
    /\ stats["open_tickets"] = 1

StatusOf(t) == t["first_reply_sla_status"]
LabelledMet(t) == StatusOf(t) = "Met"
LabelledMetOrMissed(t) == StatusOf(t) \in {"Met", "Missed"}

\* C24: after calculate_ticket_stats on a non-empty collection every ticket
\* carries first_reply_sla_status in {"Met", "Missed", "No Reply Logged", "N/A",
\* "N/A (No SLA Def)"}, first_reply_sla_met is the number of tickets labelled
\* "Met" and first_reply_sla_applicable the number labelled "Met" or "Missed".
C24_StatusesAndTallies ==
    ReturnedStats =>
        /\ \A n \in 1..Len(tickets_data) :
              /\ "first_reply_sla_status" \in DOMAIN tickets_data[n]
              /\ StatusOf(tickets_data[n])
                    \in {"Met", "Missed", "No Reply Logged", "N/A", "N/A (No SLA Def)"}
        /\ stats["first_reply_sla_met"] = CountProcessed(LabelledMet)
        /\ stats["first_reply_sla_applicable"] = CountProcessed(LabelledMetOrMissed)

\* one ticket labelled "Met" and one labelled "Missed"
C24_Witness ==
    /\ ReturnedStats
    /\ Len(tickets_data) = 2
    /\ StatusOf(tickets_data[1]) = "Met"
    /\ StatusOf(tickets_data[2]) = "Missed"
    /\ stats["first_reply_sla_met"] = 1
    /\ stats["first_reply_sla_applicable"] = 2

\* every entry of the distribution counts at least one ticket
AllCounted(dist) == \A n \in 1..Len(dist) : dist[n].v >= 1

\* the tickets that lack the field are the ones the distribution holds under "N/A"
UnderNA(dist, field) ==
    CountFor(dist, "N/A")
       = Cardinality({n \in 1..Len(tickets_data) : field \notin DOMAIN tickets_data[n]})

\* C25: in the stats of every non-empty collection the counts of
\* tickets_by_type sum to total_tickets, and so do the counts of
\* tickets_by_priority and of tickets_by_category; every count in a
\* distribution is at least 1, and a ticket with no type or category is
\* counted under the label "N/A".
C25_DistributionsSumToTotal ==
    ReturnedStats =>
        /\ TotalOf(stats["tickets_by_type"]) = stats["total_tickets"]
        /\ TotalOf(stats["tickets_by_priority"]) = stats["total_tickets"]
        /\ TotalOf(stats["tickets_by_category"]) = stats["total_tickets"]
        /\ AllCounted(stats["tickets_by_type"])
        /\ AllCounted(stats["tickets_by_priority"])
        /\ AllCounted(stats["tickets_by_category"])
        /\ UnderNA(stats["tickets_by_type"], "type")
        /\ UnderNA(stats["tickets_by_category"], "category")

\* two tickets, one with a type and one without, neither with a category
C25_Witness ==
    /\ ReturnedStats
    /\ stats["total_tickets"] = 2
    /\ stats["tickets_by_type"] = <<[k |-> "Incident", v |-> 1], [k |-> "N/A", v |-> 1]>>
    /\ stats["tickets_by_category"] = <<[k |-> "N/A", v |-> 2]>>

\* a ticket as it was passed, without the three fields the function adds
AsPassed(t) ==
    [k \in DOMAIN t \ {"calendar_resolution_time_str", "resolved_at_str",
                       "first_reply_sla_status"} |-> t[k]]

\* the frames an invocation goes through when it runs alone on a collection
RECURSIVE AloneFrom(_)
AloneFrom(f) ==
    {f} \cup
    CASE f.pc = "start" -> AloneFrom(BeginFrame(f))
      [] f.pc = "loop" /\ f.i < Len(f.tickets_data) -> AloneFrom(ProcessFrame(f))
      [] f.pc = "loop" /\ f.i = Len(f.tickets_data) -> AloneFrom(FinishFrame(f))
      [] OTHER -> {}

\* the frame in which an invocation run alone on the collection ends
AloneResult(tickets) ==
    CHOOSE f \in AloneFrom(EntryFrame(tickets)) : f.pc \in {"done", "raised"}

\* C21: two invocations of calculate_ticket_stats running interleaved, each on
\* its own ticket collection, return the same stats and leave the same
\* per-ticket derived fields as each invocation run alone; at no point does
\* an invocation hold anything but what it holds on its own run, and the
\* module constants SLA_DEFINITIONS and CHART_COLORS are never modified.
C21_InterleavedAsAlone ==
    /\ \A k \in DOMAIN calls :
          LET passed == [n \in 1..Len(calls[k].tickets_data) |->
                            AsPassed(calls[k].tickets_data[n])]
          IN  /\ calls[k] \in AloneFrom(EntryFrame(passed))
              /\ calls[k].pc \in {"done", "raised"} => calls[k] = AloneResult(passed)
    /\ module_constants # <<>> =>
          /\ module_constants.SLA_DEFINITIONS = SLA_DEFINITIONS
          /\ module_constants.CHART_COLORS = CHART_COLORS

\* both invocations have returned, on different collections, with different
\* stats
C21_Witness ==
    /\ calls # <<>>
    /\ calls[1].pc = "done" /\ calls[2].pc = "done"
    /\ Len(calls[1].tickets_data) = 2 /\ Len(calls[2].tickets_data) = 1
    /\ calls[1].stats["first_reply_sla_met"] = 1
    /\ calls[1].stats["total_tickets"] = 2
    /\ calls[2].stats["total_tickets"] = 1
    /\ calls[2].stats["first_reply_sla_applicable"] = 0

\* C26: the report that send_report_email sends to the e-mail address of
\* client X was built from client X's ticket snapshot: under any sequence or
\* interleaving of execute_report_generation and send_report_email requests
\* for different clients, the output_report.html mailed for X never holds a
\* report generated for another client.
C26_MailedReportIsOfClient ==
    \A m \in mailed : \A c \in Clients : m.to = EmailOf(c) => m.report = c

\* the last response received
LastResponse == responses[Len(responses)]

\* the responses that use up an attempt: rate limits, timeouts, request
\* exceptions (a 404 that is not allowed and a 500 make raise_for_status raise)
UsesAttempt(r) ==
    \/ r \in {"429", "429_date", "timeout", "connection_error", "500"}
    \/ r = "404" /\ ~allow.allow_404

IsForbidden(r) == r \in {"403", "403_html"}

\* C27: make_api_request terminates for every sequence of server responses
\* and issues at most retries + 1 HTTP requests (4 by default); a 429
\* response, a timeout and a request exception each use up one attempt; a 403
\* response, allowed or not, ends the call at once with an error record; and
\* when no attempt succeeds the call returns None.
C27_BoundedRetries ==
    /\ Len(responses) <= 4
    /\ request_pc # "raised"
    /\ responses # <<>> =>
          /\ UsesAttempt(LastResponse) =>
                /\ current_retry = Len(responses)
                /\ request_pc = "loop" \/ (request_pc = "returned" /\ current_retry = 4)
          /\ IsForbidden(LastResponse) =>
                /\ request_pc = "returned"
                /\ request_ret = ErrorRecord(403)
                /\ current_retry = Len(responses) - 1
    /\ (request_pc = "returned" /\ \A n \in 1..Len(responses) : UsesAttempt(responses[n])) =>
          /\ request_ret = ReturnNone
          /\ Len(responses) = 4

\* every part of the rule on the calls in which no rate limit carries a date
\* and no 403 carries a body that is not JSON
BoundedRetriesOnPlainResponses ==
    (\A n \in 1..Len(responses) : responses[n] \notin {"429_date", "403_html"}) =>
        C27_BoundedRetries

----------------------------------------------------------------------------
(* The pagination loops *)

InTicketsLoop == loop_fn = "get_tickets_for_client_in_range" /\ pages_pc # "idle"
InItemsLoop == loop_fn = "get_paginated_data" /\ pages_pc # "idle"

\* the number an item or an enriched ticket carries
NumberOf(item) == IF InTicketsLoop THEN item["id"][1] ELSE item

\* the latest request failed or its answer lacks the key
LatestFailed ==
    /\ fetched # <<>>
    /\ ~fetched.response.raised
    /\ \/ fetched.response.value = <<>>
       \/ DOMAIN fetched.response.value \cap {"conversations", "tickets"} = {}

\* the list the latest answer holds under the key
LatestList ==
    IF fetched = <<>> \/ fetched.response.raised \/ LatestFailed THEN <<>>
    ELSE IF InTicketsLoop THEN fetched.response.value["tickets"]
    ELSE fetched.response.value["conversations"]

LatestShort == fetched # <<>> /\ ~fetched.response.raised /\ ~LatestFailed /\ Len(LatestList) < 30

\* the pages asked for are 1, 2, 3, ... and none above 100
PagesInOrder ==
    /\ requested = [n \in 1..Len(requested) |-> n]
    /\ Len(requested) <= 100

\* the items are those of the pages fetched, in page order, all of every
\* page before the latest
ItemsInPageOrder ==
    /\ \A n \in 1..(Len(all_items) - 1) : NumberOf(all_items[n]) < NumberOf(all_items[n + 1])
    /\ \A n \in 1..Len(all_items) : NumberOf(all_items[n]) <= 30 * Len(requested)
    /\ Len(all_items) >= 30 * (Len(requested) - 1)
    /\ InItemsLoop /\ fetched # <<>> /\ ~fetched.response.raised
           => Len(all_items) = 30 * (Len(requested) - 1) + Len(LatestList)

\* the loop goes on only past full pages below page 100, and returns only
\* at a failed or key-less answer, a short page or page 100
StopsWhereStated ==
    /\ pages_pc = "loop" /\ fetched # <<>>
           => ~LatestFailed /\ Len(LatestList) = 30 /\ Len(requested) < 100
    /\ pages_pc = "loop" => page = Len(requested) + 1 /\ page <= 100
    /\ pages_pc = "returned" => LatestFailed \/ LatestShort \/ Len(requested) = 100

PagesRule ==
    pages_pc # "idle" => PagesInOrder /\ ItemsInPageOrder /\ StopsWhereStated

\* C29: get_paginated_data and get_tickets_for_client_in_range always end
\* by returning: each stops at the first failed or key-less response, at the
\* first page of fewer than 30 items or after page 100, never asks for a page
\* above 100, and returns the items of the pages fetched so far in page order.
C29_PagedLoopsReturn ==
    pages_pc # "idle" =>
        /\ pages_pc \in {"loop", "returned"}
        /\ PagesInOrder /\ ItemsInPageOrder /\ StopsWhereStated

----------------------------------------------------------------------------
(* Tickets without a status or a priority *)

\* the stubs of the latest page of get_tickets_for_client_in_range
FetchedStubs == IF InTicketsLoop THEN LatestList ELSE <<>>

HasId(k) == "id" \in DOMAIN FetchedStubs[k]

\* the details request for stub k returned the ticket
TicketFetched(k) ==
    /\ HasId(k)
    /\ ~fetched.answers[k].details.raised
    /\ "ticket" \in DOMAIN fetched.answers[k].details.value

FetchedTicket(k) == fetched.answers[k].details.value["ticket"]

Lacks(k, field) ==
    TicketFetched(k)
    /\ (field \notin DOMAIN FetchedTicket(k) \/ FetchedTicket(k)[field] = NoneVal)

\* neither the request for the latest page nor a request about a ticket of
\* it raised
NoRequestRaised ==
    /\ fetched # <<>> => ~fetched.response.raised
    /\ \A k \in 1..Len(FetchedStubs) :
           /\ ~fetched.answers[k].details.raised
           /\ \A p \in 1..Len(fetched.answers[k].conversations) :
                  ~fetched.answers[k].conversations[p].raised
           /\ \A p \in 1..Len(fetched.answers[k].time_entries) :
                  ~fetched.answers[k].time_entries[p].raised
           /\ ~fetched.answers[k].ratings.raised

\* the returned list holds ticket k, enriched
Kept(k) ==
    \E n \in 1..Len(all_items) :
        /\ all_items[n]["id"] = FetchedStubs[k]["id"]
        /\ {"all_conversations", "all_time_entries", "all_satisfaction_ratings"}
               \subseteq DOMAIN all_items[n]

KeptWith(k, field, text) ==
    \E n \in 1..Len(all_items) :
        /\ all_items[n]["id"] = FetchedStubs[k]["id"]
        /\ all_items[n][field] = text

\* C30: a fetched ticket without a status (or priority) field comes back
\* from get_ticket_details_with_includes with status_text "Unknown (No
\* Status ID)" (or priority_text "Unknown (No Priority ID)") instead of
\* failing, and get_tickets_for_client_in_range keeps it, enriched, and goes
\* on with the remaining tickets of the page.
C30_MissingStatusIsUnknown ==
    InTicketsLoop /\ NoRequestRaised =>
        /\ pages_pc # "raised"
        /\ \A k \in 1..Len(FetchedStubs) :
              /\ TicketFetched(k) => Kept(k)
              /\ Lacks(k, "status") => KeptWith(k, "status_text", "Unknown (No Status ID)")
              /\ Lacks(k, "priority") => KeptWith(k, "priority_text", "Unknown (No Priority ID)")

\* the same with no ticket of the page lacking either field
TicketsWithBothFieldsKept ==
    InTicketsLoop /\ NoRequestRaised
    /\ (\A k \in 1..Len(FetchedStubs) : ~Lacks(k, "status") /\ ~Lacks(k, "priority")) =>
        /\ pages_pc # "raised"
        /\ \A k \in 1..Len(FetchedStubs) : TicketFetched(k) => Kept(k)

----------------------------------------------------------------------------
(* The Mailchimp campaign steps *)

CallsMade == [n \in 1..Len(steps) |-> steps[n].call]

Made(c) == \E n \in 1..Len(steps) : steps[n].call = c
Succeeded(c) == \E n \in 1..Len(steps) : steps[n].call = c /\ steps[n].outcome = "ok"
Failed(c) == \E n \in 1..Len(steps) : steps[n].call = c /\ steps[n].outcome # "ok"

\* create, set content, send, delete, in that order: what was called so far
\* begins one of the two full runs
StepsInOrder ==
    \E run \in {<<"create", "content", "send", "delete">>, <<"create", "content", "delete">>} :
        /\ Len(CallsMade) <= Len(run)
        /\ CallsMade = SubSeq(run, 1, Len(CallsMade))

\* the call has ended, one way or the other
Ended == mc_pc \in {"returned", "raised"}

\* the cleanup delete after a content failure raises no exception, and the
\* error bodies decode with the json module
NothingRaisedInHandlers ==
    /\ ~has_simplejson
    /\ \A n \in 1..Len(steps) : steps[n].call = "delete" /\ Failed("content")
                                   => steps[n].outcome # "exception"

CampaignRule ==
    /\ StepsInOrder
    /\ Made("content") => campaign_id # NoneVal /\ Succeeded("create")
    /\ Made("send") => Succeeded("content")
    /\ Failed("content") /\ Ended =>
           /\ Made("delete") /\ ~Made("send")
           /\ mc_pc = "returned" /\ ~mc_ret.ok
    /\ mc_pc = "returned" => (mc_ret.ok <=> Succeeded("send"))
    /\ Succeeded("send") /\ Ended => mc_pc = "returned" /\ mc_ret.ok

\* C28: the campaign steps of send_report_via_mailchimp happen only in the
\* order create, set content, send, delete: content is set only after a
\* campaign id was obtained, send is attempted only after content was set, a
\* content failure deletes the campaign and returns failure without sending,
\* and the function returns success exactly when the send step succeeded,
\* even when the final delete fails.
C28_CampaignStepsInOrder == mc_pc # "idle" => CampaignRule

\* the same where no handler raises
CampaignStepsWhereHandlersReturn ==
    mc_pc # "idle" /\ NothingRaisedInHandlers => CampaignRule

====
